---- MODULE Spec2Model ----
(***************************************************************************)
(* Cloud photo manager: the provider manager (cloud-provider-manager.ts),  *)
(* the credential store (env-file-manager.ts), the merged thumbnail index  *)
(* (thumbnail-handler.ts) and the request handlers that drive them         *)
(* (routes/provider-routes.ts, routes/oauth-routes.ts, routes/server.ts).  *)
(***************************************************************************)
EXTENDS Integers, Sequences, FiniteSets, TLC

VARIABLES
  providers,            \* CloudProviderManager.providers: type -> list of instances
  isInitialized,        \* CloudProviderManager.isInitialized
  envFile,              \* content of the .env file, a sequence of tokens
  dateSortedThumbnails, \* ThumbnailHandler.dateSortedThumbnails
  renderPointer,        \* ThumbnailHandler.renderPointer
  listening,            \* the server accepts requests (after initialize resolved)
  exchanges,            \* OAuth callbacks waiting for the token endpoint
  lastOp,               \* the operation that produced this state, with its inputs
  page,                 \* result of the last getThumbnailObjects call
  initCalls,            \* initialize() calls: where each one is suspended
  pendingAdds           \* add-provider requests suspended in their listing

vars == <<providers, isInitialized, envFile, dateSortedThumbnails,
          renderPointer, listening, exchanges, lastOp, page, initCalls, pendingAdds>>

-----------------------------------------------------------------------------
(* Bounds of the model *)

\* addThumbnails alone (SpecMerger): batch length, index length, instance tags
MaxBatch == 2
MaxThumbnails == 3
MaxTag == 1
\* paging (SpecPage): batch length, index length, largest page size asked for
MaxPageBatch == 2
MaxPageThumbnails == 5
MaxPageSize == 2
\* the manager (Spec): instances per type, entries per listing, callbacks in
\* flight, blank lines left in the file
MaxInstances == 3
MaxListing == 1
MaxExchanges == 1
MaxBlankLines == 1
\* the store on its own (SpecStore): lines written, edits made
MaxStoreLines == 2
MaxStoreEdits == 2
\* the provider map on its own (SpecLookup): largest index a call names
MaxLookupIndex == 2
\* initialize() calls made on one manager, and instances the file holds then
MaxInitCalls == 2
MaxInitInstances == 2
\* instances a credential file prepared by hand holds
MaxConfigured == 2
\* lines of the credential file up to which instances are added over a disk
\* whose writes can fail
MaxDiskLines == 9
\* add-provider requests suspended in their listing at one time
MaxPendingAdds == 1

-----------------------------------------------------------------------------
(* JavaScript values *)

\* Date.getTime() of an Invalid Date (new Date(undefined)); valid times are >= 0
NaN == 0 - 1

\* one-character strings; a string is a sequence of characters
UpperChars == <<"A","B","C","D","E","F","G","H","I","J","K","L","M",
                "N","O","P","Q","R","S","T","U","V","W","X","Y","Z">>
LowerChars == <<"a","b","c","d","e","f","g","h","i","j","k","l","m",
                "n","o","p","q","r","s","t","u","v","w","x","y","z">>

toLowerCaseChar(c) ==
  IF \E k \in 1..26 : UpperChars[k] = c
  THEN LowerChars[CHOOSE k \in 1..26 : UpperChars[k] = c]
  ELSE c

toLowerCase(s) == [k \in 1..Len(s) |-> toLowerCaseChar(s[k])]

\* String.prototype.lastIndexOf for a one-character needle, 0-based, -1 if absent
lastIndexOf(s, c) ==
  IF \E k \in 1..Len(s) : s[k] = c
  THEN (CHOOSE k \in 1..Len(s) : s[k] = c /\ \A m \in (k+1)..Len(s) : s[m] # c) - 1
  ELSE 0 - 1

\* String.prototype.substring(from) with a 0-based start
substring(s, from) == SubSeq(s, from + 1, Len(s))

Max(a, b) == IF a >= b THEN a ELSE b
Min(a, b) == IF a <= b THEN a ELSE b

\* Array.prototype.slice(begin, end): 0-based, begin inclusive, end exclusive,
\* a negative bound counts from the end and both are clamped to the array
slice(a, begin, end) ==
  LET from == IF begin < 0 THEN Max(Len(a) + begin, 0) ELSE Min(begin, Len(a))
      to == IF end < 0 THEN Max(Len(a) + end, 0) ELSE Min(end, Len(a))
  IN SubSeq(a, from + 1, to)

\* Array.prototype.reverse
reverse(a) == [k \in 1..Len(a) |-> a[Len(a) + 1 - k]]

\* the elements of a sequence
Range(s) == {s[k] : k \in 1..Len(s)}

\* all sequences over S of length lo..hi
SeqsOf(S, lo, hi) == UNION {[1..n -> S] : n \in lo..hi}

\* all sequences without repetition over S of length lo..hi
DistinctSeqsOf(S, lo, hi) ==
  {s \in SeqsOf(S, lo, hi) : \A a, b \in 1..Len(s) : a # b => s[a] # s[b]}

\* the orderings of the elements of a sequence
PermutationsOf(s) ==
  {[k \in 1..Len(s) |-> s[p[k]]] :
     p \in {q \in [1..Len(s) -> 1..Len(s)] :
              \A a, b \in 1..Len(s) : a # b => q[a] # q[b]}}

-----------------------------------------------------------------------------
(* thumbnail-handler.ts *)

imageExtensions ==
  { <<".","j","p","g">>, <<".","j","p","e","g">>, <<".","p","n","g">>,
    <<".","g","i","f">>, <<".","b","m","p">>, <<".","w","e","b","p">>,
    <<".","t","i","f","f">>, <<".","t","i","f">>, <<".","s","v","g">>,
    <<".","i","c","o">>, <<".","h","e","i","c">>, <<".","h","e","i","f">>,
    <<".","r","a","w">>, <<".","c","r","2">>, <<".","n","e","f">>,
    <<".","a","r","w">>, <<".","d","n","g">> }

\* the value the promise returned by isImage resolves to
isImageResolved(file) ==
  LET lastDotIndex == lastIndexOf(file.name, ".")
  IN IF lastDotIndex = 0 - 1 \/ lastDotIndex = 0
     THEN FALSE
     ELSE substring(toLowerCase(file.name), lastDotIndex) \in imageExtensions

\* isImage is declared async: a call returns a promise object
isImage(file) == [promise |-> TRUE, value |-> isImageResolved(file)]

\* ToBoolean as Array.prototype.filter applies it to the callback's result:
\* an object (here a promise) is truthy whatever it resolves to
ToBoolean(v) == IF v.promise THEN TRUE ELSE v.value

\* the comparator given to sort: a.date_taken.getTime() - b.date_taken.getTime();
\* a NaN result is taken as +0 by Array.prototype.sort
compareDate(a, b) ==
  IF a.date_taken = NaN \/ b.date_taken = NaN THEN 0 ELSE a.date_taken - b.date_taken

\* Date <= Date compares the time values; any comparison with NaN is false
dateLeq(a, b) == a.date_taken # NaN /\ b.date_taken # NaN /\ a.date_taken <= b.date_taken

\* a consistent comparator orders equal elements alike (ECMA-262 23.1.3.30)
consistentComparator(a) ==
  \A x, y, z \in Range(a) :
    /\ (compareDate(x, y) = 0 /\ compareDate(y, z) = 0) => compareDate(x, z) = 0
    /\ (compareDate(x, y) < 0 /\ compareDate(y, z) = 0) => compareDate(x, z) < 0
    /\ (compareDate(x, y) = 0 /\ compareDate(y, z) < 0) => compareDate(x, z) < 0

RECURSIVE stableSort(_)
stableSort(a) ==
  IF a = <<>> THEN <<>>
  ELSE LET k == CHOOSE m \in 1..Len(a) :
                  /\ \A n \in 1..Len(a) : compareDate(a[n], a[m]) >= 0
                  /\ \A n \in 1..(m-1) : compareDate(a[n], a[m]) > 0
       IN <<a[k]>> \o stableSort(SubSeq(a, 1, k-1) \o SubSeq(a, k+1, Len(a)))

\* Array.prototype.sort: stable for a consistent comparator, otherwise the
\* order is implementation-defined
sortOutcomes(a) ==
  IF consistentComparator(a) THEN {stableSort(a)} ELSE PermutationsOf(a)

\* the two-pointer merge loop of addThumbnails, from pointers i, j (0-based)
RECURSIVE mergeFrom(_, _, _, _)
mergeFrom(existing, imageFiles, i, j) ==
  IF i < Len(existing) /\ j < Len(imageFiles)
  THEN IF dateLeq(existing[i+1], imageFiles[j+1])
       THEN <<existing[i+1]>> \o mergeFrom(existing, imageFiles, i+1, j)
       ELSE <<imageFiles[j+1]>> \o mergeFrom(existing, imageFiles, i, j+1)
  ELSE SubSeq(existing, i+1, Len(existing)) \o SubSeq(imageFiles, j+1, Len(imageFiles))

\* the batch that survives files.filter(file => ThumbnailHandler.isImage(file))
filterImages(files) == SelectSeq(files, LAMBDA f : ToBoolean(isImage(f)))

\* addThumbnails: the states [thumbs, pointer] it can leave, given the sort's outcomes
addThumbnails(thumbs, pointer, files) ==
  LET imageFiles == filterImages(files)
  IN IF Len(imageFiles) = 0
     THEN {[thumbs |-> thumbs, pointer |-> pointer]}
     ELSE { IF Len(thumbs) = 0
            THEN [thumbs |-> sorted, pointer |-> pointer]
            ELSE LET merged == mergeFrom(thumbs, sorted, 0, 0)
                 IN [thumbs |-> merged, pointer |-> Len(merged)]
            : sorted \in sortOutcomes(imageFiles) }

\* ThumbnailHandler.removeProvider
thumbnailRemoveProvider(thumbs, providerType, instanceIndex) ==
  LET kept == SelectSeq(thumbs, LAMBDA t :
                t.providerType # providerType \/ t.instanceIndex # instanceIndex)
  IN [thumbs |-> kept, pointer |-> Len(kept)]

\* getThumbnailObjects without the final reverse(): the window oldest first
getThumbnailObjects_NoReverse(thumbs, index, size) ==
  LET totalLength == Len(thumbs)
  IN IF totalLength = 0 \/ index < 0 \/ size <= 0 \/ index >= totalLength
     THEN <<>>
     ELSE LET startIndex == totalLength - 1 - index
              endIndex == Max(0, startIndex - size + 1)
          IN slice(thumbs, endIndex, startIndex + 1)

\* getThumbnailObjects with endIndex one too low: a window of size + 1
getThumbnailObjects_WideWindow(thumbs, index, size) ==
  LET totalLength == Len(thumbs)
  IN IF totalLength = 0 \/ index < 0 \/ size <= 0 \/ index >= totalLength
     THEN <<>>
     ELSE LET startIndex == totalLength - 1 - index
              endIndex == Max(0, startIndex - size)
          IN reverse(slice(thumbs, endIndex, startIndex + 1))

\* getThumbnailObjects without the index < 0 test of its guard
getThumbnailObjects_NoNegativeTest(thumbs, index, size) ==
  LET totalLength == Len(thumbs)
  IN IF totalLength = 0 \/ size <= 0 \/ index >= totalLength
     THEN <<>>
     ELSE LET startIndex == totalLength - 1 - index
              endIndex == Max(0, startIndex - size + 1)
          IN reverse(slice(thumbs, endIndex, startIndex + 1))

\* ThumbnailHandler.getThumbnailObjects
getThumbnailObjects(thumbs, index, size) ==
  LET totalLength == Len(thumbs)
  IN IF totalLength = 0 \/ index < 0 \/ size <= 0 \/ index >= totalLength
     THEN <<>>
     ELSE LET startIndex == totalLength - 1 - index
              endIndex == Max(0, startIndex - size + 1)
          IN reverse(slice(thumbs, endIndex, startIndex + 1))

\* the array a call that reversed its window in place would leave
getThumbnailObjectsLeaves_InPlace(thumbs, index, size) ==
  LET totalLength == Len(thumbs)
  IN IF totalLength = 0 \/ index < 0 \/ size <= 0 \/ index >= totalLength
     THEN thumbs
     ELSE LET startIndex == totalLength - 1 - index
              endIndex == Max(0, startIndex - size + 1)
          IN slice(thumbs, 0, endIndex)
               \o reverse(slice(thumbs, endIndex, startIndex + 1))
               \o slice(thumbs, startIndex + 1, totalLength)

\* what getThumbnailObjects leaves in ThumbnailHandler.dateSortedThumbnails:
\* slice returns a new array and reverse reorders that new array
getThumbnailObjectsLeaves(thumbs, index, size) ==
  LET totalLength == Len(thumbs)
  IN IF totalLength = 0 \/ index < 0 \/ size <= 0 \/ index >= totalLength
     THEN thumbs
     ELSE LET startIndex == totalLength - 1 - index
              endIndex == Max(0, startIndex - size + 1)
          IN slice(thumbs, 0, endIndex)
               \o slice(thumbs, endIndex, startIndex + 1)
               \o slice(thumbs, startIndex + 1, totalLength)

-----------------------------------------------------------------------------
(* env-file-manager.ts: the .env text is a sequence of tokens; a key such  *)
(* as DROPBOX_APP_KEY_1 is one token (provider prefix, field, index), "="  *)
(* and the newline are tokens, and a value is one token.                   *)

Tok(t, pt, field, idx, v) == [t |-> t, pt |-> pt, field |-> field, idx |-> idx, v |-> v]
KeyTok(pt, field, idx) == Tok("key", pt, field, idx, "")
EQ == Tok("=", "", "", 0, "")
NL == Tok("\n", "", "", 0, "")
ValTok(v) == Tok("val", "", "", 0, v)

\* String.prototype.split('\n'): the pieces between consecutive newlines
split(text) ==
  LET newlines == SelectSeq([k \in 1..Len(text) |-> k], LAMBDA k : text[k] = NL)
      cut == <<0>> \o newlines \o <<Len(text) + 1>>
  IN [i \in 1..(Len(newlines) + 1) |-> SubSeq(text, cut[i] + 1, cut[i + 1] - 1)]

\* Array.prototype.join('\n'), from element k on
RECURSIVE joinFrom(_, _)
joinFrom(lines, k) ==
  IF k > Len(lines) THEN <<>>
  ELSE IF k = Len(lines) THEN lines[k]
  ELSE lines[k] \o <<NL>> \o joinFrom(lines, k + 1)

join(lines) == joinFrom(lines, 1)

\* line.startsWith(`${key}=`), also the regex `^${key}=` tested on a line
startsWithKey(line, key) == Len(line) >= 2 /\ line[1] = key /\ line[2] = EQ

\* line.indexOf('='), 0-based, -1 if absent
indexOfEq(line) ==
  IF \E k \in 1..Len(line) : line[k] = EQ
  THEN (CHOOSE k \in 1..Len(line) : line[k] = EQ /\ \A n \in 1..(k-1) : line[n] # EQ) - 1
  ELSE 0 - 1

\* what getValue returns when no line has the key
null == <<Tok("null", "", "", 0, "")>>

\* a string is truthy unless it is empty; null and undefined are falsy
truthy(s) == s # null /\ s # <<>>

\* writeEnvFile: the content fs.writeFileSync receives
writeEnvFile(content) == IF content # <<>> THEN content \o <<NL>> ELSE <<>>

\* writeLines with the content read before the write left out
writeLines_Overwrites(file, lines) ==
  LET validLines == SelectSeq(lines, LAMBDA l : l # <<>>)
  IN IF Len(validLines) = 0 THEN file
     ELSE writeEnvFile(join(validLines))

\* writeLines(lines, true): the new file content (lines hold no blank text)
writeLines(file, lines) ==
  LET currentContent == file
      validLines == SelectSeq(lines, LAMBDA l : l # <<>>)
  IN IF Len(validLines) = 0 THEN file
     ELSE writeEnvFile(currentContent \o join(validLines))

\* one edit of editLines with replaceEntireLine false: [key, newValue]
editValue(content, edit) ==
  LET lines == split(content)
      updatedLines == [k \in 1..Len(lines) |->
        IF startsWithKey(lines[k], edit.key) /\ indexOfEq(lines[k]) # 0 - 1
        THEN SubSeq(lines[k], 1, indexOfEq(lines[k]) + 1) \o edit.newValue
        ELSE lines[k]]
      count == Cardinality({k \in 1..Len(lines) :
        startsWithKey(lines[k], edit.key) /\ indexOfEq(lines[k]) # 0 - 1})
  IN [content |-> join(updatedLines), editCount |-> count]

RECURSIVE editAll(_, _, _)
editAll(content, edits, editCount) ==
  IF edits = <<>> THEN [content |-> content, editCount |-> editCount]
  ELSE LET r == editValue(content, Head(edits))
       IN editAll(r.content, Tail(edits), editCount + r.editCount)

\* editLines(edits): the new file content
editLines(file, edits) ==
  IF file = <<>> THEN file
  ELSE LET r == editAll(file, edits, 0)
       IN IF r.editCount > 0 THEN writeEnvFile(r.content) ELSE file

\* getValue(key): the text after the first '=' of the first line that starts
\* with `${key}=`, null if there is none
\* getValue finding its line with startsWith(key), the '=' left out: a key
\* whose text begins with the text of key is taken for it
getValue_NoEqualsTest(file, key) ==
  IF file = <<>> THEN null
  ELSE LET matching == SelectSeq(split(file), LAMBDA line :
                         /\ Len(line) >= 2
                         /\ line[1].t = "key"
                         /\ line[1].pt = key.pt
                         /\ line[1].field = key.field
                         /\ (line[1].idx = key.idx \/ line[1].idx \div 10 = key.idx))
       IN IF Len(matching) = 0 THEN null
          ELSE substring(matching[1], indexOfEq(matching[1]) + 1)

\* hasKey(key): some line starts with `${key}=`
hasKey(file, key) ==
  IF file = <<>> THEN FALSE
  ELSE \E k \in 1..Len(split(file)) : startsWithKey(split(file)[k], key)

getValue(file, key) ==
  IF file = <<>> THEN null
  ELSE LET matching == SelectSeq(split(file), LAMBDA line : startsWithKey(line, key))
       IN IF Len(matching) = 0 THEN null
          ELSE substring(matching[1], indexOfEq(matching[1]) + 1)

-----------------------------------------------------------------------------
(* providers/dropbox-provider.ts: listFiles *)

Chars_a_jpg == <<"a",".","j","p","g">>
Chars_IMG_0001_HEIC == <<"I","M","G","_","0","0","0","1",".","H","E","I","C">>
Chars_photo == <<"p","h","o","t","o">>
Chars_bashrc == <<".","b","a","s","h","r","c">>
Chars_notes_txt == <<"n","o","t","e","s",".","t","x","t">>

\* an entry of the list_folder response; a folder entry has no client_modified
Entry(tag, id, name, client_modified) ==
  [tag |-> tag, id |-> id, name |-> name, client_modified |-> client_modified]

\* entries a remote account can hold
RemoteEntries ==
  { Entry("file", 1, Chars_a_jpg, 1),
    Entry("file", 2, Chars_IMG_0001_HEIC, 2),
    Entry("folder", 3, Chars_photo, 0),
    Entry("file", 4, Chars_bashrc, 2),
    Entry("file", 5, Chars_notes_txt, 3) }

\* entries of the accounts the manager's instances are connected to
AccountEntries ==
  { Entry("file", 1, Chars_a_jpg, 1) }

\* entries used where only the paging arithmetic matters: images taken at 1..5
PageEntries == { Entry("file", t, Chars_a_jpg, t) : t \in 1..5 }

\* new Date(entry.client_modified).getTime(); new Date(undefined) is an Invalid Date
newDate(entry) == IF entry.tag = "file" THEN entry.client_modified ELSE NaN

\* convertToPhotoMetadata; origin is the identity of the provider object that
\* produced the record (not a field of the program's record)
convertToPhotoMetadata(entry, providerType, instanceIndex, origin) ==
  [id |-> entry.id, name |-> entry.name, date_taken |-> newDate(entry),
   providerType |-> providerType, instanceIndex |-> instanceIndex, origin |-> origin]

\* DropboxProvider.getProviderType
getProviderType == "dropbox"

\* DropboxProvider.listFiles on a response holding entries, for instanceIndex
listFiles(entries, instanceIndex, origin) ==
  [k \in 1..Len(entries) |->
     convertToPhotoMetadata(entries[k], getProviderType, instanceIndex, origin)]

-----------------------------------------------------------------------------
(* cloud-provider-manager.ts *)

\* providerType.toUpperCase() and its inverse toLowerCase() on the type names
toUpperCaseType(providerType) ==
  CASE providerType = "dropbox" -> "DROPBOX"
    [] providerType = "gdrive" -> "GDRIVE"
    [] OTHER -> providerType

toLowerCaseType(prefix) ==
  CASE prefix = "DROPBOX" -> "dropbox"
    [] prefix = "GDRIVE" -> "gdrive"
    [] OTHER -> prefix

\* DropboxProvider.getEnvVariablePatterns
getEnvVariablePatterns(instanceIndex) ==
  [appKey |-> KeyTok("DROPBOX", "APP_KEY", instanceIndex),
   appSecret |-> KeyTok("DROPBOX", "APP_SECRET", instanceIndex),
   accessToken |-> KeyTok("DROPBOX", "ACCESS_TOKEN", instanceIndex),
   refreshToken |-> KeyTok("DROPBOX", "REFRESH_TOKEN", instanceIndex)]

\* a provider object: new DropboxProvider(false); uid is the object's identity
\* (not a field of the program's object), accessToken the token its client was
\* last built with
Provider(uid) == [uid |-> uid, authenticated |-> FALSE, accessToken |-> <<>>]

\* the placeholder pushed by addProvider while it grows the list (null as any)
NullProvider == [uid |-> 0 - 1, authenticated |-> FALSE, accessToken |-> <<>>]

\* this.providers[providerType], and whether the entry exists
hasList(provs, providerType) == providerType \in DOMAIN provs
listOf(provs, providerType) == IF hasList(provs, providerType) THEN provs[providerType] ELSE <<>>
setList(provs, providerType, list) ==
  [t \in DOMAIN provs \cup {providerType} |-> IF t = providerType THEN list ELSE provs[t]]

\* getProviderClass: the switch knows 'dropbox' only
getProviderClass(providerType) ==
  IF providerType = "dropbox" THEN [ok |-> TRUE] ELSE [ok |-> FALSE]

\* getProvider without the test of the slot: a hole is returned as the instance
getProvider_NoHoleTest(provs, providerType, instanceIndex) ==
  LET providerInstances == listOf(provs, providerType)
  IN IF ~hasList(provs, providerType) \/ Len(providerInstances) = 0
     THEN [ok |-> FALSE, error |-> "NotFound", provider |-> NullProvider]
     ELSE IF instanceIndex < 0 \/ instanceIndex >= Len(providerInstances)
     THEN [ok |-> FALSE, error |-> "IndexOutOfRange", provider |-> NullProvider]
     ELSE [ok |-> TRUE, error |-> "", provider |-> providerInstances[instanceIndex + 1]]

\* getProvider: the instance, or the error thrown
getProvider(provs, providerType, instanceIndex) ==
  LET providerInstances == listOf(provs, providerType)
  IN IF ~hasList(provs, providerType) \/ Len(providerInstances) = 0
     THEN [ok |-> FALSE, error |-> "NotFound", provider |-> NullProvider]
     ELSE IF instanceIndex < 0 \/ instanceIndex >= Len(providerInstances)
     THEN [ok |-> FALSE, error |-> "IndexOutOfRange", provider |-> NullProvider]
     ELSE IF providerInstances[instanceIndex + 1] = NullProvider
     THEN [ok |-> FALSE, error |-> "InstanceMissing", provider |-> NullProvider]
     ELSE [ok |-> TRUE, error |-> "", provider |-> providerInstances[instanceIndex + 1]]

\* DropboxProvider.authenticate: whether the credentials authenticate
authenticate(credentials) ==
  /\ truthy(credentials.accessToken)
  /\ truthy(credentials.refreshToken)
  /\ truthy(credentials.appKey)
  /\ truthy(credentials.appSecret)

\* addCredentials: [authenticated, providers]; authenticate sets the flag of
\* the instance, a failed lookup is caught and gives false
addCredentials(provs, file, providerType, instanceIndex) ==
  LET actualIndex == IF instanceIndex # 0 - 1 THEN instanceIndex
                     ELSE Len(listOf(provs, providerType)) - 1
      found == getProvider(provs, providerType, actualIndex)
      patterns == getEnvVariablePatterns(actualIndex)
      credentials == [appKey |-> getValue(file, patterns.appKey),
                      appSecret |-> getValue(file, patterns.appSecret),
                      accessToken |-> getValue(file, patterns.accessToken),
                      refreshToken |-> getValue(file, patterns.refreshToken)]
      result == authenticate(credentials)
  IN IF ~found.ok THEN [authenticated |-> FALSE, providers |-> provs]
     ELSE [authenticated |-> result,
           providers |-> setList(provs, providerType,
             [listOf(provs, providerType) EXCEPT ![actualIndex + 1] =
                [uid |-> found.provider.uid, authenticated |-> result,
                 accessToken |-> IF result THEN credentials.accessToken
                                 ELSE found.provider.accessToken]])]

\* the access token is one the remote issued (the literal text "undefined",
\* written for a credential that was not supplied, is not)
issuedToken(token) == truthy(token) /\ token # <<ValTok("undefined")>>

\* what the remote can answer to a listing made with this provider's client:
\* entries only for an issued token, a failure at any time
Listing(threw, entries) == [threw |-> threw, entries |-> entries]

ListingChoices(maxListing) ==
  {Listing(TRUE, <<>>)} \cup
  {Listing(FALSE, e) : e \in DistinctSeqsOf(AccountEntries, 0, maxListing)}

\* the answers possible to the listing addProvider(providerType, instanceIndex)
\* makes: it lists with the access token stored for the index it authenticates
repliesFor(provs, file, providerType, instanceIndex, maxListing) ==
  LET actualIndex == IF instanceIndex # 0 - 1 THEN instanceIndex
                     ELSE Len(listOf(provs, providerType))
  IN IF issuedToken(getValue(file, getEnvVariablePatterns(actualIndex).accessToken))
     THEN ListingChoices(maxListing)
     ELSE {Listing(TRUE, <<>>)}

\* an identity no live provider object and no record of the index carries
freshUid(provs, thumbs) ==
  LET used == UNION {{provs[t][k].uid : k \in 1..Len(provs[t])} : t \in DOMAIN provs}
              \cup {thumbs[k].origin : k \in 1..Len(thumbs)}
  IN CHOOSE u \in 0..(Cardinality(used)) : u \notin used

\* the list after the insertion step of addProvider (instanceIndex -1 is null)
insertProvider(list, provider, instanceIndex) ==
  IF instanceIndex # 0 - 1
  THEN LET grown == list \o [k \in 1..(instanceIndex + 1 - Len(list)) |-> NullProvider]
       IN [grown EXCEPT ![instanceIndex + 1] = provider]
  ELSE Append(list, provider)

\* addProvider(providerType, instanceIndex) creating the provider object uid:
\* the states it can leave, with threw set when it rejects; listing is the
\* remote's answer to listFiles
addProviderWith(st, file, providerType, instanceIndex, listing, uid) ==
  LET withList == IF hasList(st.providers, providerType) THEN st.providers
                  ELSE setList(st.providers, providerType, <<>>)
      provider == Provider(uid)
      inserted == setList(withList, providerType,
                    insertProvider(listOf(withList, providerType), provider, instanceIndex))
      actualIndex == IF instanceIndex # 0 - 1 THEN instanceIndex
                     ELSE Len(listOf(inserted, providerType)) - 1
      cred == addCredentials(inserted, file, providerType, actualIndex)
      reply == listing
  IN IF ~getProviderClass(providerType).ok
     THEN {[providers |-> withList, thumbs |-> st.thumbs, pointer |-> st.pointer,
            threw |-> TRUE]}
     ELSE IF ~cred.authenticated
     THEN {[providers |-> cred.providers, thumbs |-> st.thumbs, pointer |-> st.pointer,
            threw |-> FALSE]}
     ELSE IF reply.threw
     THEN {[providers |-> cred.providers, thumbs |-> st.thumbs, pointer |-> st.pointer,
            threw |-> TRUE]}
     ELSE {[providers |-> cred.providers, thumbs |-> out.thumbs, pointer |-> out.pointer,
            threw |-> FALSE] :
             out \in addThumbnails(st.thumbs, st.pointer,
                       listFiles(reply.entries, actualIndex, provider.uid))}

\* addProvider(providerType, instanceIndex) run to its end in one piece
addProvider(st, file, providerType, instanceIndex, listing) ==
  addProviderWith(st, file, providerType, instanceIndex, listing,
                  freshUid(st.providers, st.thumbs))

\* the text `${value}` of a credential; an absent one prints as undefined
textOf(credentials, field) ==
  IF field \in DOMAIN credentials THEN <<ValTok(credentials[field])>>
  ELSE <<ValTok("undefined")>>

validKeys == {"appKey", "appSecret", "accessToken", "refreshToken"}

\* writeEnvVariables: [ok, file]; keys is Object.keys(credentials) in order
writeEnvVariables(provs, file, providerType, instanceIndex, keys, credentials) ==
  LET found == getProvider(provs, providerType, instanceIndex)
      patterns == getEnvVariablePatterns(instanceIndex)
      envLines == [k \in 1..Len(keys) |->
                     <<patterns[keys[k]], EQ>> \o textOf(credentials, keys[k])]
  IN IF ~found.ok \/ Len(keys) = 0 \/ \E k \in 1..Len(keys) : keys[k] \notin validKeys
     THEN [ok |-> FALSE, file |-> file]
     ELSE [ok |-> TRUE, file |-> writeLines(file, envLines)]

\* updateEnvVariables: [ok, file]
updateEnvVariables(provs, file, providerType, instanceIndex, keys, credentials) ==
  LET found == getProvider(provs, providerType, instanceIndex)
      patterns == getEnvVariablePatterns(instanceIndex)
      edits == [k \in 1..Len(keys) |->
                  [key |-> patterns[keys[k]], newValue |-> textOf(credentials, keys[k])]]
  IN IF ~found.ok \/ Len(keys) = 0 \/ \E k \in 1..Len(keys) : keys[k] \notin validKeys
     THEN [ok |-> FALSE, file |-> file]
     ELSE [ok |-> TRUE, file |-> editLines(file, edits)]

\* a line `${providerVarName}_<field>_<digits>=...`
isInstanceLine(line, providerVarName) ==
  Len(line) >= 2 /\ line[1].t = "key" /\ line[1].pt = providerVarName /\ line[2] = EQ

\* removeInstanceEnvVariable without step 2: the lines above keep their index
removeInstanceEnvVariable_NoRenumber(file, providerType, instanceIndex) ==
  LET providerVarName == toUpperCaseType(providerType)
      before == split(file)
      envContent == join([k \in 1..Len(before) |->
                      IF isInstanceLine(before[k], providerVarName)
                         /\ before[k][1].idx = instanceIndex
                      THEN <<>> ELSE before[k]])
      cleanedContent == join(SelectSeq(split(envContent), LAMBDA l : l # <<>>))
  IN IF cleanedContent # <<>> THEN cleanedContent \o <<NL>> ELSE <<>>

\* removeInstanceEnvVariable with step 2 run on the content read, not on the
\* content step 1 produced: the lines of the removed instance stay
removeInstanceEnvVariable_KeepsRemoved(file, providerType, instanceIndex) ==
  LET providerVarName == toUpperCaseType(providerType)
      lines == split(file)
      updatedLines == [k \in 1..Len(lines) |->
                         IF isInstanceLine(lines[k], providerVarName)
                            /\ lines[k][1].idx > instanceIndex
                         THEN <<KeyTok(lines[k][1].pt, lines[k][1].field, lines[k][1].idx - 1)>>
                              \o Tail(lines[k])
                         ELSE lines[k]]
      cleanedContent == join(SelectSeq(updatedLines, LAMBDA l : l # <<>>))
  IN IF cleanedContent # <<>> THEN cleanedContent \o <<NL>> ELSE <<>>

\* removeInstanceEnvVariable: the content written back
removeInstanceEnvVariable(file, providerType, instanceIndex) ==
  LET providerVarName == toUpperCaseType(providerType)
      \* step 1: blank every line of the removed instance
      before == split(file)
      envContent == join([k \in 1..Len(before) |->
                      IF isInstanceLine(before[k], providerVarName)
                         /\ before[k][1].idx = instanceIndex
                      THEN <<>> ELSE before[k]])
      \* step 2: decrement the index of the lines above it
      lines == split(envContent)
      updatedLines == [k \in 1..Len(lines) |->
                         IF isInstanceLine(lines[k], providerVarName)
                            /\ lines[k][1].idx > instanceIndex
                         THEN <<KeyTok(lines[k][1].pt, lines[k][1].field, lines[k][1].idx - 1)>>
                              \o Tail(lines[k])
                         ELSE lines[k]]
      \* step 3: drop empty lines, end with a newline
      cleanedContent == join(SelectSeq(updatedLines, LAMBDA l : l # <<>>))
  IN IF cleanedContent # <<>> THEN cleanedContent \o <<NL>> ELSE <<>>

\* Array.prototype.splice(instanceIndex, 1)
splice(list, instanceIndex) ==
  SubSeq(list, 1, instanceIndex) \o SubSeq(list, instanceIndex + 2, Len(list))

\* removeProvider: [removed, providers, thumbs, pointer, file]
removeProvider(st, file, providerType, instanceIndex) ==
  LET providerInstances == listOf(st.providers, providerType)
      purged == thumbnailRemoveProvider(st.thumbs, providerType, instanceIndex)
  IN IF ~hasList(st.providers, providerType) \/ Len(providerInstances) = 0
        \/ instanceIndex < 0 \/ instanceIndex >= Len(providerInstances)
     THEN [removed |-> FALSE, providers |-> st.providers, thumbs |-> st.thumbs,
           pointer |-> st.pointer, file |-> file]
     ELSE [removed |-> TRUE,
           providers |-> setList(st.providers, providerType,
                                 splice(providerInstances, instanceIndex)),
           thumbs |-> purged.thumbs, pointer |-> purged.pointer,
           file |-> removeInstanceEnvVariable(file, providerType, instanceIndex)]

\* the scan of initializeProviders: the provider types with an app-key line,
\* in the order their first line appears
RECURSIVE scanTypes(_)
scanTypes(lines) ==
  IF lines = <<>> THEN <<>>
  ELSE LET rest == scanTypes(SubSeq(lines, 1, Len(lines) - 1))
           line == lines[Len(lines)]
       IN IF Len(line) >= 2 /\ line[1].t = "key" /\ line[1].field = "APP_KEY" /\ line[2] = EQ
             /\ toLowerCaseType(line[1].pt) \notin Range(rest)
          THEN Append(rest, toLowerCaseType(line[1].pt))
          ELSE rest

\* providerConfigs[providerType]: the largest index among its app-key lines
scanMaxIndex(lines, providerType) ==
  LET found == {lines[k][1].idx : k \in {m \in 1..Len(lines) :
                  /\ Len(lines[m]) >= 2 /\ lines[m][1].t = "key" /\ lines[m][2] = EQ
                  /\ lines[m][1].field = "APP_KEY"
                  /\ toLowerCaseType(lines[m][1].pt) = providerType}}
  IN CHOOSE n \in found : \A m \in found : m <= n

\* the loops of initializeProviders from (types[t], i) on, for every answer
\* the remote can give to each listing; a rejected addProvider is logged and
\* skipped
RECURSIVE initializeFrom(_, _, _, _, _, _)
initializeFrom(st, file, types, t, i, maxListing) ==
  IF t > Len(types) THEN {st}
  ELSE IF i > scanMaxIndex(split(file), types[t])
  THEN initializeFrom(st, file, types, t + 1, 0, maxListing)
  ELSE UNION { UNION { initializeFrom([providers |-> r.providers, thumbs |-> r.thumbs,
                                       pointer |-> r.pointer],
                                      file, types, t, i + 1, maxListing) :
                       r \in addProvider(st, file, types[t], i, listing) } :
               listing \in repliesFor(st.providers, file, types[t], i, maxListing) }

initializeProviders(st, file, maxListing) ==
  initializeFrom(st, file, scanTypes(split(file)), 1, 0, maxListing)

-----------------------------------------------------------------------------
(* State after construction, and the record of the last operation *)

Op(kind, providerType, index, size, files, ok) ==
  [kind |-> kind, providerType |-> providerType, index |-> index,
   size |-> size, files |-> files, ok |-> ok, result |-> <<>>]

\* the record of an operation together with what it returned to its caller
Returned(op, result) == [op EXCEPT !.result = result]

\* an initialize() call that was not made yet; pc is where the call stands:
\* "idle", "listing" (suspended in the listing of instance i of types[t], made
\* by its provider object uid) or "done", scanned whether it ran the scan
IdleCall ==
  [pc |-> "idle", scanned |-> FALSE, types |-> <<>>, t |-> 0, i |-> 0, uid |-> 0]

Init ==
  /\ providers = [t \in {} |-> <<>>]
  /\ isInitialized = FALSE
  /\ envFile = <<>>
  /\ dateSortedThumbnails = <<>>
  /\ renderPointer = 0
  /\ listening = FALSE
  /\ exchanges = {}
  /\ lastOp = Op("constructor", "", 0, 0, <<>>, TRUE)
  /\ page = <<>>
  /\ initCalls = [c \in 1..MaxInitCalls |-> IdleCall]
  /\ pendingAdds = {}

managerVars == <<providers, isInitialized, envFile, listening, exchanges, initCalls, pendingAdds>>

\* the manager's provider map with the thumbnail handler's statics
managerState ==
  [providers |-> providers, thumbs |-> dateSortedThumbnails, pointer |-> renderPointer]

-----------------------------------------------------------------------------
(* The merged index on its own: ThumbnailHandler driven by arbitrary batches *)

\* ThumbnailHandler.addThumbnails(files), files a listing of at most maxBatch
\* entries of catalogue in any order, tagged with an instance index up to maxTag
AddThumbnailsFrom(catalogue, maxBatch, maxTag, maxThumbnails) ==
  \E entries \in DistinctSeqsOf(catalogue, 0, maxBatch), instanceIndex \in 0..maxTag :
    LET files == listFiles(entries, instanceIndex, instanceIndex)
    IN /\ Len(dateSortedThumbnails) + Len(files) <= maxThumbnails
       /\ \E out \in addThumbnails(dateSortedThumbnails, renderPointer, files) :
            /\ dateSortedThumbnails' = out.thumbs
            /\ renderPointer' = out.pointer
       /\ lastOp' = Op("addThumbnails", getProviderType, instanceIndex, 0, files, TRUE)
       /\ page' = <<>>
       /\ UNCHANGED managerVars

\* ThumbnailHandler.removeProvider(providerType, instanceIndex)
ThumbnailRemoveProvider(maxTag) ==
  \E instanceIndex \in 0..maxTag :
    LET out == thumbnailRemoveProvider(dateSortedThumbnails, getProviderType, instanceIndex)
    IN /\ dateSortedThumbnails' = out.thumbs
       /\ renderPointer' = out.pointer
       /\ lastOp' = Op("thumbnailRemoveProvider", getProviderType, instanceIndex, 0, <<>>, TRUE)
       /\ page' = <<>>
       /\ UNCHANGED managerVars

\* ThumbnailHandler.getThumbnailObjects(index, size); page keeps the calls made
\* since the index last changed (the last two of them)
GetThumbnailObjects ==
  \E index \in (0 - 1)..Len(dateSortedThumbnails), size \in (0 - 1)..MaxPageSize :
    LET call == [index |-> index, size |-> size,
                 result |-> getThumbnailObjects(dateSortedThumbnails, index, size)]
    IN /\ page' = IF Len(page) = 0 THEN <<call>> ELSE <<page[Len(page)], call>>
       /\ lastOp' = Op("getThumbnailObjects", "", index, size, <<>>, TRUE)
       /\ dateSortedThumbnails' = getThumbnailObjectsLeaves(dateSortedThumbnails, index, size)
       /\ UNCHANGED renderPointer
       /\ UNCHANGED managerVars

MergerAddThumbnails == AddThumbnailsFrom(RemoteEntries, MaxBatch, MaxTag, MaxThumbnails)
MergerRemoveProvider == ThumbnailRemoveProvider(MaxTag)

NextMerger == MergerAddThumbnails \/ MergerRemoveProvider

SpecMerger == Init /\ [][NextMerger]_vars

\* entries of PageEntries that are not in the index yet
UnlistedPageEntries ==
  {e \in PageEntries : \A k \in 1..Len(dateSortedThumbnails) : dateSortedThumbnails[k].id # e.id}

PageAddThumbnails == AddThumbnailsFrom(UnlistedPageEntries, MaxPageBatch, 0, MaxPageThumbnails)
PageRemoveProvider == ThumbnailRemoveProvider(0)

NextPage == PageAddThumbnails \/ PageRemoveProvider \/ GetThumbnailObjects

SpecPage == Init /\ [][NextPage]_vars

-----------------------------------------------------------------------------
(* The credential store on its own: EnvFileManager driven by arbitrary calls *)

\* keys and values the calls name
StoreKeys == {KeyTok("DROPBOX", "APP_KEY", 0), KeyTok("DROPBOX", "ACCESS_TOKEN", 0)}
StoreValues == {<<ValTok("old")>>, <<ValTok("X")>>}

\* the number of lines of the file: the newline-terminated pieces of its text
lineCount(file) == Len(SelectSeq(file, LAMBDA tok : tok = NL))

\* calls of editLines made on the file since it was last written otherwise
editsMade == IF lastOp.kind = "editLines" THEN lastOp.size ELSE 0

\* EnvFileManager.writeLines([`${key}=${value}`], true)
StoreWriteLines ==
  \E key \in StoreKeys, value \in StoreValues :
    /\ lineCount(envFile) < MaxStoreLines
    /\ envFile' = writeLines(envFile, <<(<<key, EQ>> \o value)>>)
    /\ lastOp' = Op("writeLines", "", 0, 0, <<[key |-> key, newValue |-> value]>>, TRUE)
    /\ UNCHANGED <<providers, isInitialized, dateSortedThumbnails, renderPointer,
                   listening, exchanges, initCalls, pendingAdds, page>>

\* EnvFileManager.editLines([{pattern: `^${key}=`, newValue}]); size counts the
\* edits made in a row
StoreEditLines ==
  \E key \in StoreKeys, value \in StoreValues :
    /\ editsMade < MaxStoreEdits
    /\ envFile' = editLines(envFile, <<[key |-> key, newValue |-> value]>>)
    /\ lastOp' = Op("editLines", "", 0, editsMade + 1,
                    <<[key |-> key, newValue |-> value]>>, TRUE)
    /\ UNCHANGED <<providers, isInitialized, dateSortedThumbnails, renderPointer,
                   listening, exchanges, initCalls, pendingAdds, page>>

NextStore == StoreWriteLines \/ StoreEditLines

SpecStore == Init /\ [][NextStore]_vars

-----------------------------------------------------------------------------
(* The provider map on its own: CloudProviderManager driven by arbitrary   *)
(* calls of addProvider, removeProvider and getProvider, no credentials on *)
(* file                                                                    *)

\* provider types the calls name; getProviderClass knows the first only
LookupTypes == {"dropbox", "gdrive"}

\* addProvider(providerType, instanceIndex), instanceIndex -1 standing for null
LookupAddProvider ==
  \E providerType \in LookupTypes, instanceIndex \in (0 - 1)..MaxLookupIndex :
  \E r \in addProvider(managerState, envFile, providerType, instanceIndex,
                        Listing(TRUE, <<>>)) :
    /\ Len(listOf(providers, providerType)) <= MaxLookupIndex
    /\ providers' = r.providers
    /\ dateSortedThumbnails' = r.thumbs
    /\ renderPointer' = r.pointer
    /\ lastOp' = Op("addProvider", providerType, instanceIndex, 0, <<>>, ~r.threw)
    /\ UNCHANGED <<isInitialized, envFile, listening, exchanges, initCalls, pendingAdds, page>>

\* removeProvider(providerType, instanceIndex)
LookupRemoveProvider ==
  \E providerType \in LookupTypes, instanceIndex \in 0..MaxLookupIndex :
  \E r \in {removeProvider(managerState, envFile, providerType, instanceIndex)} :
    /\ providers' = r.providers
    /\ dateSortedThumbnails' = r.thumbs
    /\ renderPointer' = r.pointer
    /\ envFile' = r.file
    /\ lastOp' = Returned(Op("removeProvider", providerType, instanceIndex, 0, <<>>,
                             r.removed),
                          [threw |-> FALSE])
    /\ UNCHANGED <<isInitialized, listening, exchanges, initCalls, pendingAdds, page>>

\* DELETE /remove-provider {providerType, instanceIndex}: the status answered;
\* removeProvider returns whatever it did, and the handler answers 200
removeProviderRoute(st, file, providerType, indexNum) ==
  LET r == removeProvider(st, file, toLowerCaseType(providerType), indexNum)
  IN IF indexNum < 0
     THEN [status |-> 400, removed |-> FALSE, providers |-> st.providers,
           thumbs |-> st.thumbs, pointer |-> st.pointer, file |-> file]
     ELSE [status |-> 200, removed |-> r.removed, providers |-> r.providers,
           thumbs |-> r.thumbs, pointer |-> r.pointer, file |-> r.file]

LookupRemoveProviderRoute ==
  \E providerType \in LookupTypes, indexNum \in (0 - 1)..MaxLookupIndex :
  \E r \in {removeProviderRoute(managerState, envFile, providerType, indexNum)} :
    /\ providers' = r.providers
    /\ dateSortedThumbnails' = r.thumbs
    /\ renderPointer' = r.pointer
    /\ envFile' = r.file
    /\ lastOp' = Returned(Op("removeProviderRoute", providerType, indexNum, 0, <<>>,
                             r.removed),
                          [status |-> r.status])
    /\ UNCHANGED <<isInitialized, listening, exchanges, initCalls, pendingAdds, page>>

\* addCredentials(providerType, instanceIndex): a lookup that throws is
\* caught and false returned
LookupAddCredentials ==
  \E providerType \in LookupTypes, instanceIndex \in 0..MaxLookupIndex :
  \E cred \in {addCredentials(providers, envFile, providerType, instanceIndex)} :
    /\ providers' = cred.providers
    /\ lastOp' = Returned(Op("addCredentials", providerType, instanceIndex, 0, <<>>,
                             cred.authenticated),
                          [threw |-> FALSE, authenticated |-> cred.authenticated])
    /\ UNCHANGED <<isInitialized, envFile, dateSortedThumbnails, renderPointer,
                   listening, exchanges, initCalls, pendingAdds, page>>

\* getProvider(providerType, instanceIndex): the instance returned or the
\* error thrown
LookupGetProvider ==
  \E providerType \in LookupTypes, instanceIndex \in (0 - 1)..(MaxLookupIndex + 1) :
  \E found \in {getProvider(providers, providerType, instanceIndex)} :
    /\ lastOp' = Returned(Op("getProvider", providerType, instanceIndex, 0, <<>>, found.ok),
                          found)
    /\ UNCHANGED <<providers, isInitialized, envFile, dateSortedThumbnails,
                   renderPointer, listening, exchanges, initCalls, pendingAdds, page>>

NextLookup ==
  \/ LookupAddProvider
  \/ LookupRemoveProvider
  \/ LookupRemoveProviderRoute
  \/ LookupAddCredentials
  \/ LookupGetProvider

SpecLookup == Init /\ [][NextLookup]_vars

-----------------------------------------------------------------------------
(* initialize() called more than once on one manager, over a credential    *)
(* file an earlier run of the server left                                  *)

\* the file after POST /add-provider stored instance idx, and after the OAuth
\* callback stored its tokens when issued
storedInstance(file, idx, issued) ==
  LET patterns == getEnvVariablePatterns(idx)
      written == writeLines(file, << <<patterns.appKey, EQ, ValTok("ka")>>,
                                     <<patterns.appSecret, EQ, ValTok("sa")>>,
                                     <<patterns.refreshToken, EQ, ValTok("undefined")>>,
                                     <<patterns.accessToken, EQ, ValTok("undefined")>> >>)
  IN IF issued
     THEN editLines(written, << [key |-> patterns.accessToken, newValue |-> <<ValTok("at1")>>],
                                [key |-> patterns.refreshToken, newValue |-> <<ValTok("rt1")>>] >>)
     ELSE written

RECURSIVE storedFile(_, _)
storedFile(issued, n) ==
  IF n = 0 THEN <<>>
  ELSE storedInstance(storedFile(issued, n - 1), n - 1, issued[n])

StoredFiles == {storedFile(issued, Len(issued)) : issued \in SeqsOf(BOOLEAN, 0, MaxInitInstances)}

\* the server process starts over one of these files
InitStored ==
  /\ providers = [t \in {} |-> <<>>]
  /\ isInitialized = FALSE
  /\ envFile \in StoredFiles
  /\ dateSortedThumbnails = <<>>
  /\ renderPointer = 0
  /\ listening = FALSE
  /\ exchanges = {}
  /\ lastOp = Op("constructor", "", 0, 0, <<>>, TRUE)
  /\ page = <<>>
  /\ initCalls = [c \in 1..MaxInitCalls |-> IdleCall]
  /\ pendingAdds = {}

\* the provider objects suspended calls other than c hold
suspendedUids(calls, c) ==
  {calls[d].uid : d \in {e \in DOMAIN calls : e # c /\ calls[e].pc = "listing"}}

\* an identity no live provider object, no record of the index and no
\* suspended call carries
freshUidBeside(provs, thumbs, others) ==
  LET used == UNION {{provs[t][k].uid : k \in 1..Len(provs[t])} : t \in DOMAIN provs}
              \cup {thumbs[k].origin : k \in 1..Len(thumbs)} \cup others
  IN CHOOSE u \in 0..(Cardinality(used)) : u \notin used

\* the loops of initializeProviders from (types[t], i) up to the next
\* await provider.listFiles(...) inside addProvider, or to their end
RECURSIVE runUntilAwait(_, _, _, _, _, _)
runUntilAwait(st, file, types, t, i, others) ==
  IF t > Len(types) THEN [st |-> st, pc |-> "done", t |-> t, i |-> i, uid |-> 0]
  ELSE IF i > scanMaxIndex(split(file), types[t])
  THEN runUntilAwait(st, file, types, t + 1, 0, others)
  ELSE LET uid == freshUidBeside(st.providers, st.thumbs, others)
           r == CHOOSE x \in addProviderWith(st, file, types[t], i,
                                             Listing(TRUE, <<>>), uid) : TRUE
           started == [providers |-> r.providers, thumbs |-> r.thumbs,
                       pointer |-> r.pointer]
           awaits == /\ getProviderClass(types[t]).ok
                     /\ getProvider(r.providers, types[t], i).provider.authenticated
       IN IF awaits
          THEN [st |-> started, pc |-> "listing", t |-> t, i |-> i, uid |-> uid]
          ELSE runUntilAwait(started, file, types, t, i + 1, others)

\* what a call leaves when it reaches r: the flag is set once the loops ended
InitializeReaches(c, types, r) ==
  /\ providers' = r.st.providers
  /\ dateSortedThumbnails' = r.st.thumbs
  /\ renderPointer' = r.st.pointer
  /\ isInitialized' = IF r.pc = "done" THEN TRUE ELSE isInitialized
  /\ initCalls' = [initCalls EXCEPT ![c] =
                     [pc |-> r.pc, scanned |-> TRUE, types |-> types,
                      t |-> r.t, i |-> r.i, uid |-> r.uid]]

\* initialize() from its call to its first suspension
InitializeCall ==
  \E c \in 1..MaxInitCalls :
    /\ initCalls[c].pc = "idle"
    /\ IF isInitialized
       THEN /\ initCalls' = [initCalls EXCEPT ![c].pc = "done"]
            /\ UNCHANGED <<providers, isInitialized, dateSortedThumbnails, renderPointer>>
       ELSE \E types \in {scanTypes(split(envFile))} :
            \E r \in {runUntilAwait(managerState, envFile, types, 1, 0,
                                    suspendedUids(initCalls, c))} :
              InitializeReaches(c, types, r)
    /\ lastOp' = Op("initialize", "", c, 0, <<>>, TRUE)
    /\ UNCHANGED <<envFile, listening, exchanges, page, pendingAdds>>

\* the listing a call waits for is answered: addProvider merges it (a
\* rejection is caught by initializeProviders) and the loops go on
InitializeResume ==
  \E c \in 1..MaxInitCalls :
    /\ initCalls[c].pc = "listing"
    /\ \E call \in {initCalls[c]} :
       \E reply \in (IF issuedToken(getValue(envFile,
                                       getEnvVariablePatterns(call.i).accessToken))
                     THEN ListingChoices(MaxListing) ELSE {Listing(TRUE, <<>>)}) :
       \E out \in (IF reply.threw
                   THEN {[thumbs |-> dateSortedThumbnails, pointer |-> renderPointer]}
                   ELSE addThumbnails(dateSortedThumbnails, renderPointer,
                                      listFiles(reply.entries, call.i, call.uid))) :
       \E r \in {runUntilAwait([providers |-> providers, thumbs |-> out.thumbs,
                                pointer |-> out.pointer],
                               envFile, call.types, call.t, call.i + 1,
                               suspendedUids(initCalls, c))} :
         /\ InitializeReaches(c, call.types, r)
         /\ lastOp' = Op("initializeResumed", call.types[call.t], call.i, 0,
                         reply.entries, ~reply.threw)
    /\ UNCHANGED <<envFile, listening, exchanges, page, pendingAdds>>

NextInit == InitializeCall \/ InitializeResume

SpecInit == InitStored /\ [][NextInit]_vars

-----------------------------------------------------------------------------
(* The server: routes/server.ts, routes/provider-routes.ts, routes/oauth-routes.ts *)

\* provider types the requests name
RequestTypes == {"dropbox"}

\* credentials an add-provider request carries (AddProviderRequest)
CredentialInputs ==
  { [appKey |-> "ka", appSecret |-> "sa"], [appKey |-> "kb", appSecret |-> "sb"] }

\* token pairs the token endpoint returns for an authorization code
TokenResponses == { [accessToken |-> "at1", refreshToken |-> "rt1"] }

\* empty lines inside the file (the piece after the last newline is not a line)
blankLines(file) ==
  LET lines == split(file)
  IN Cardinality({k \in 1..(Len(lines) - 1) : lines[k] = <<>>})

\* server.ts: await cloudProviderManager.initialize(), then app.listen; no
\* request is served before initialize has resolved
Initialize ==
  /\ ~listening
  /\ IF isInitialized
     THEN UNCHANGED <<providers, dateSortedThumbnails, renderPointer>>
     ELSE \E r \in initializeProviders(managerState, envFile, MaxListing) :
              /\ providers' = r.providers
              /\ dateSortedThumbnails' = r.thumbs
              /\ renderPointer' = r.pointer
  /\ isInitialized' = TRUE
  /\ listening' = TRUE
  /\ lastOp' = Op("initialize", "", 0, 0, <<>>, TRUE)
  /\ page' = <<>>
  /\ UNCHANGED <<envFile, exchanges, initCalls, pendingAdds>>

\* the process stops and is started again: memory is lost, the file is kept
Restart ==
  /\ listening
  /\ providers' = [t \in {} |-> <<>>]
  /\ isInitialized' = FALSE
  /\ dateSortedThumbnails' = <<>>
  /\ renderPointer' = 0
  /\ listening' = FALSE
  /\ exchanges' = {}
  /\ UNCHANGED <<initCalls, pendingAdds>>
  /\ lastOp' = Op("restart", "", 0, 0, <<>>, TRUE)
  /\ page' = <<>>
  /\ UNCHANGED envFile

\* POST /add-provider
AddProviderRoute ==
  /\ listening
  /\ \E providerType \in RequestTypes, credentials \in CredentialInputs :
     \E listing \in repliesFor(providers, envFile, providerType, 0 - 1, MaxListing) :
       /\ Len(listOf(providers, providerType)) < MaxInstances
       /\ \E r \in addProvider(managerState, envFile, providerType, 0 - 1, listing) :
          \E assignedInstanceIndex \in {Len(listOf(r.providers, providerType)) - 1} :
          \E written \in {writeEnvVariables(r.providers, envFile, providerType,
                             assignedInstanceIndex,
                             <<"appKey", "appSecret", "refreshToken", "accessToken">>,
                             credentials)} :
            /\ providers' = r.providers
            /\ dateSortedThumbnails' = r.thumbs
            /\ renderPointer' = r.pointer
            /\ envFile' = IF r.threw THEN envFile ELSE written.file
            /\ lastOp' = Op("addProviderRoute", providerType, assignedInstanceIndex, 0,
                            <<>>, ~r.threw /\ written.ok)
       /\ page' = <<>>
       /\ UNCHANGED <<isInitialized, listening, exchanges, initCalls, pendingAdds>>

\* DELETE /remove-provider
RemoveProviderRoute ==
  /\ listening
  /\ \E providerType \in RequestTypes :
     \E indexNum \in 0..Len(listOf(providers, providerType)) :
       \E r \in {removeProvider(managerState, envFile, providerType, indexNum)} :
          /\ providers' = r.providers
          /\ dateSortedThumbnails' = r.thumbs
          /\ renderPointer' = r.pointer
          /\ envFile' = r.file
          /\ lastOp' = Op("removeProviderRoute", providerType, indexNum, 0, <<>>, r.removed)
  /\ page' = <<>>
  /\ UNCHANGED <<isInitialized, listening, exchanges, initCalls, pendingAdds>>

\* GET /oauth/ up to the await of exchangeCodeForToken; state is
\* "providerType:index"
OAuthCallback ==
  /\ listening
  /\ Cardinality(exchanges) < MaxExchanges
  /\ \E providerType \in RequestTypes, indexNum \in 0..(MaxInstances - 1) :
       LET patterns == getEnvVariablePatterns(indexNum)
       IN /\ getProvider(providers, providerType, indexNum).ok
          /\ truthy(getValue(envFile, patterns.appKey))
          /\ truthy(getValue(envFile, patterns.appSecret))
          /\ [providerType |-> providerType, indexNum |-> indexNum] \notin exchanges
          /\ exchanges' = exchanges \cup {[providerType |-> providerType, indexNum |-> indexNum]}
          /\ lastOp' = Op("oauthCallback", providerType, indexNum, 0, <<>>, TRUE)
  /\ UNCHANGED <<providers, isInitialized, envFile, dateSortedThumbnails,
                 renderPointer, listening, page, initCalls, pendingAdds>>

\* GET /oauth/ from the answer of the token endpoint on: the tokens are
\* written with updateEnvVariables and the instance re-authenticated
OAuthTokens ==
  \E x \in exchanges, tokenData \in TokenResponses :
  \E updated \in {updateEnvVariables(providers, envFile, x.providerType, x.indexNum,
                     <<"accessToken", "refreshToken">>, tokenData)} :
  \E cred \in {addCredentials(providers, updated.file, x.providerType, x.indexNum)} :
    /\ blankLines(envFile) < MaxBlankLines
    /\ exchanges' = exchanges \ {x}
    /\ envFile' = updated.file
    /\ providers' = IF updated.ok THEN cred.providers ELSE providers
    /\ lastOp' = Op("oauthTokens", x.providerType, x.indexNum, 0, <<tokenData>>,
                    updated.ok)
    /\ UNCHANGED <<isInitialized, dateSortedThumbnails, renderPointer,
                   listening, page, initCalls, pendingAdds>>

\* GET /oauth/ when the token endpoint rejects the code: redirect, no change
OAuthRejected ==
  \E x \in exchanges :
    /\ exchanges' = exchanges \ {x}
    /\ lastOp' = Op("oauthRejected", x.providerType, x.indexNum, 0, <<>>, FALSE)
    /\ UNCHANGED <<providers, isInitialized, envFile, dateSortedThumbnails,
                   renderPointer, listening, page, initCalls, pendingAdds>>

\* answers of the token endpoint to a refresh request: a new access token,
\* with or without a new refresh token (refresh_token ""), or an error
RefreshResponses ==
  { [error |-> "", access_token |-> "at2", refresh_token |-> ""],
    [error |-> "", access_token |-> "at2", refresh_token |-> "rt2"],
    [error |-> "invalid_grant", access_token |-> "", refresh_token |-> ""],
    [error |-> "invalid_client", access_token |-> "", refresh_token |-> ""] }

\* refreshToken with the access-token edit left out of the edits
refreshToken_KeepsAccessToken(provider, file, instanceIndex, response) ==
  LET patterns == getEnvVariablePatterns(instanceIndex)
      edits == IF response.refresh_token # ""
               THEN << [key |-> patterns.refreshToken,
                        newValue |-> <<ValTok(response.refresh_token)>>] >>
               ELSE <<>>
  IN IF response.error = ""
     THEN [result |-> [success |-> TRUE, error |-> "", requests |-> 1],
           provider |-> [provider EXCEPT !.authenticated = TRUE,
                                         !.accessToken = <<ValTok(response.access_token)>>],
           file |-> editLines(file, edits)]
     ELSE [result |-> [success |-> FALSE, error |-> "Failed to refresh access token",
                       requests |-> 1],
           provider |-> provider,
           file |-> file]

\* DropboxProvider.refreshToken from the answer of the token endpoint on:
\* [result, provider, file]; requests counts the calls of the token endpoint
refreshToken(provider, file, instanceIndex, response) ==
  LET patterns == getEnvVariablePatterns(instanceIndex)
      edits == << [key |-> patterns.accessToken,
                   newValue |-> <<ValTok(response.access_token)>>] >>
               \o (IF response.refresh_token # ""
                   THEN << [key |-> patterns.refreshToken,
                            newValue |-> <<ValTok(response.refresh_token)>>] >>
                   ELSE <<>>)
  IN IF response.error = ""
     THEN [result |-> [success |-> TRUE, error |-> "", requests |-> 1],
           provider |-> [provider EXCEPT !.authenticated = TRUE,
                                         !.accessToken = <<ValTok(response.access_token)>>],
           file |-> editLines(file, edits)]
     ELSE [result |-> [success |-> FALSE,
                       error |-> IF response.error = "invalid_grant"
                                 THEN "Refresh token is invalid or expired. Re-authentication required."
                                 ELSE "Invalid client credentials.",
                       requests |-> 1],
           provider |-> provider,
           file |-> file]

\* POST /oauth/refresh for an instance whose refresh token, app key and app
\* secret are on file; a refresh token the remote never issued is rejected
RefreshRoute ==
  /\ listening
  /\ \E providerType \in RequestTypes, indexNum \in 0..(MaxInstances - 1) :
     \E found \in {getProvider(providers, providerType, indexNum)} :
     \E patterns \in {getEnvVariablePatterns(indexNum)} :
     \E response \in RefreshResponses :
       /\ found.ok
       /\ truthy(getValue(envFile, patterns.refreshToken))
       /\ truthy(getValue(envFile, patterns.appKey))
       /\ truthy(getValue(envFile, patterns.appSecret))
       /\ response.error = "" => issuedToken(getValue(envFile, patterns.refreshToken))
       /\ response.error = "" => blankLines(envFile) < MaxBlankLines
       /\ \E r \in {refreshToken(found.provider, envFile, indexNum, response)} :
            /\ providers' = setList(providers, providerType,
                               [listOf(providers, providerType) EXCEPT ![indexNum + 1] =
                                  r.provider])
            /\ envFile' = r.file
            /\ lastOp' = Returned(Op("refresh", providerType, indexNum, 0, <<response>>,
                                     r.result.success), r.result)
  /\ UNCHANGED <<isInitialized, dateSortedThumbnails, renderPointer, listening,
                 exchanges, page, initCalls, pendingAdds>>

\* what filesGetThumbnailV2 can do for one file: return the image or fail
ThumbnailFetches == {"data", "not_found"}

\* DropboxProvider.getThumbnail: the ThumbnailResponse
getThumbnail(provider, fetch) ==
  IF ~provider.authenticated
  THEN [success |-> FALSE, error |-> "Provider not authenticated"]
  ELSE IF fetch = "data" THEN [success |-> TRUE, error |-> ""]
  ELSE [success |-> FALSE, error |-> "File not found"]

\* GET /get-thumbnails?index=&size=: [status, body]; fetches[k] is what the
\* remote does for the k-th record of the page. A getProvider that throws
\* inside the Promise.all rejects it, and the handler's catch answers 500
getThumbnailsRoute(provs, thumbs, indexNum, sizeNum, fetches) ==
  LET authenticatedProviders ==
        {<<t, i>> \in UNION {{<<u, k>> : k \in 1..Len(provs[u])} : u \in DOMAIN provs} :
           provs[t][i] # NullProvider /\ provs[t][i].authenticated}
      thumbnails == getThumbnailObjects(thumbs, indexNum, sizeNum)
      lookups == [k \in 1..Len(thumbnails) |->
                    getProvider(provs, thumbnails[k].providerType,
                                thumbnails[k].instanceIndex)]
  IN IF indexNum < 0 \/ sizeNum <= 0 THEN [status |-> 400, body |-> <<>>]
     ELSE IF authenticatedProviders = {} THEN [status |-> 200, body |-> <<>>]
     ELSE IF \E k \in 1..Len(thumbnails) : ~lookups[k].ok
     THEN [status |-> 500, body |-> <<>>]
     ELSE [status |-> 200,
           body |-> [k \in 1..Len(thumbnails) |->
                       [record |-> thumbnails[k],
                        thumbnail |-> getThumbnail(lookups[k].provider, fetches[k])]]]

GetThumbnailsRoute ==
  /\ listening
  /\ \E indexNum \in (0 - 1)..Len(dateSortedThumbnails), sizeNum \in 0..MaxPageSize :
     \E fetches \in [1..Len(getThumbnailObjects(dateSortedThumbnails, indexNum, sizeNum))
                       -> ThumbnailFetches] :
     \E r \in {getThumbnailsRoute(providers, dateSortedThumbnails, indexNum, sizeNum,
                                  fetches)} :
       /\ lastOp' = Returned(Op("getThumbnails", "", indexNum, sizeNum, fetches,
                                r.status = 200), r)
       /\ page' = <<[index |-> indexNum, size |-> sizeNum,
                     result |-> getThumbnailObjects(dateSortedThumbnails, indexNum,
                                                    sizeNum)]>>
  /\ UNCHANGED <<dateSortedThumbnails, renderPointer>>
  /\ UNCHANGED managerVars

Next ==
  \/ Initialize
  \/ Restart
  \/ AddProviderRoute
  \/ RemoveProviderRoute
  \/ OAuthCallback
  \/ OAuthTokens
  \/ OAuthRejected

Spec == Init /\ [][Next]_vars

-----------------------------------------------------------------------------
(* The OAuth callback over a credential file prepared as README.md says    *)
(* (app key and app secret only) or written by POST /add-provider          *)

\* what a file can hold for the tokens of an instance: no lines, the lines
\* `..._TOKEN_i=undefined` of an add-provider request without tokens, or the
\* tokens such a request carried
ConfiguredTokens == {"", "undefined", "at0"}

configuredInstance(file, idx, tokens) ==
  LET patterns == getEnvVariablePatterns(idx)
      appLines == << <<patterns.appKey, EQ, ValTok("ka")>>,
                     <<patterns.appSecret, EQ, ValTok("sa")>> >>
      tokenLines == << <<patterns.refreshToken, EQ, ValTok(tokens)>>,
                       <<patterns.accessToken, EQ, ValTok(tokens)>> >>
  IN writeLines(file, IF tokens = "" THEN appLines ELSE appLines \o tokenLines)

RECURSIVE configuredFile(_, _)
configuredFile(tokens, n) ==
  IF n = 0 THEN <<>>
  ELSE configuredInstance(configuredFile(tokens, n - 1), n - 1, tokens[n])

ConfiguredFiles ==
  {configuredFile(tokens, Len(tokens)) : tokens \in SeqsOf(ConfiguredTokens, 0, MaxConfigured)}

InitConfigured ==
  /\ providers = [t \in {} |-> <<>>]
  /\ isInitialized = FALSE
  /\ envFile \in ConfiguredFiles
  /\ dateSortedThumbnails = <<>>
  /\ renderPointer = 0
  /\ listening = FALSE
  /\ exchanges = {}
  /\ lastOp = Op("constructor", "", 0, 0, <<>>, TRUE)
  /\ page = <<>>
  /\ initCalls = [c \in 1..MaxInitCalls |-> IdleCall]
  /\ pendingAdds = {}

NextOAuth ==
  Initialize \/ OAuthCallback \/ OAuthTokens \/ OAuthRejected \/ RefreshRoute

SpecOAuth == InitConfigured /\ [][NextOAuth]_vars

-----------------------------------------------------------------------------
(* The gallery: thumbnail pages requested while instances are removed *)

NextGallery == Initialize \/ RemoveProviderRoute \/ GetThumbnailsRoute

SpecGallery == InitStored /\ [][NextGallery]_vars

-----------------------------------------------------------------------------
(* The manager over a disk whose writes can fail (fs.writeFileSync throws) *)

\* writeEnvVariables when the write of the file fails or not: [threw, file];
\* writeLines and writeEnvFile log the error and throw it again
writeEnvVariablesOnDisk(provs, file, providerType, instanceIndex, keys, credentials, writeFails) ==
  LET r == writeEnvVariables(provs, file, providerType, instanceIndex, keys, credentials)
  IN IF r.ok /\ ~writeFails THEN [threw |-> FALSE, file |-> r.file]
     ELSE [threw |-> TRUE, file |-> file]

\* updateEnvVariables likewise; editLines writes only if a line was edited
updateEnvVariablesOnDisk(provs, file, providerType, instanceIndex, keys, credentials, writeFails) ==
  LET r == updateEnvVariables(provs, file, providerType, instanceIndex, keys, credentials)
  IN IF r.ok /\ ~(writeFails /\ r.file # file) THEN [threw |-> FALSE, file |-> r.file]
     ELSE [threw |-> TRUE, file |-> file]

\* removeProvider likewise: removeInstanceEnvVariable catches the error of its
\* write and logs it, so removeProvider returns
removeProviderOnDisk(st, file, providerType, instanceIndex, writeFails) ==
  LET r == removeProvider(st, file, providerType, instanceIndex)
  IN [threw |-> FALSE, removed |-> r.removed, providers |-> r.providers,
      thumbs |-> r.thumbs, pointer |-> r.pointer,
      file |-> IF r.removed /\ writeFails THEN file ELSE r.file]

\* what an operation over the disk returned: whether it threw, and whether a
\* write of the file failed while it ran
DiskResult(threw, writeFailed) == [threw |-> threw, writeFailed |-> writeFailed]

\* POST /add-provider
DiskAddProviderRoute ==
  /\ listening
  /\ \E providerType \in RequestTypes, credentials \in CredentialInputs,
        writeFails \in BOOLEAN :
     \E listing \in repliesFor(providers, envFile, providerType, 0 - 1, MaxListing) :
       /\ Len(listOf(providers, providerType)) < MaxInitInstances
       /\ lineCount(envFile) + 4 <= MaxDiskLines
       /\ Len(dateSortedThumbnails) < MaxInitInstances
       /\ \E r \in addProvider(managerState, envFile, providerType, 0 - 1, listing) :
          \E assignedInstanceIndex \in {Len(listOf(r.providers, providerType)) - 1} :
          \E written \in {writeEnvVariablesOnDisk(r.providers, envFile, providerType,
                             assignedInstanceIndex,
                             <<"appKey", "appSecret", "refreshToken", "accessToken">>,
                             credentials, writeFails)} :
            /\ providers' = r.providers
            /\ dateSortedThumbnails' = r.thumbs
            /\ renderPointer' = r.pointer
            /\ envFile' = IF r.threw THEN envFile ELSE written.file
            /\ lastOp' = Returned(Op("addProvider", providerType, assignedInstanceIndex, 0,
                                     <<>>, ~r.threw /\ ~written.threw),
                                  DiskResult(r.threw \/ written.threw,
                                             ~r.threw /\ writeFails))
  /\ UNCHANGED <<isInitialized, listening, exchanges, page, initCalls, pendingAdds>>

\* updateEnvVariables(providerType, instanceIndex, {accessToken, refreshToken})
DiskUpdateEnvVariables ==
  /\ listening
  /\ blankLines(envFile) < MaxBlankLines
  /\ \E providerType \in RequestTypes, tokenData \in TokenResponses, writeFails \in BOOLEAN :
     \E instanceIndex \in 0..Len(listOf(providers, providerType)) :
     \E plain \in {updateEnvVariables(providers, envFile, providerType, instanceIndex,
                                      <<"accessToken", "refreshToken">>, tokenData)} :
     \E r \in {updateEnvVariablesOnDisk(providers, envFile, providerType, instanceIndex,
                                        <<"accessToken", "refreshToken">>, tokenData,
                                        writeFails)} :
       /\ envFile' = r.file
       /\ lastOp' = Returned(Op("updateEnvVariables", providerType, instanceIndex, 0,
                                <<>>, ~r.threw),
                             DiskResult(r.threw,
                                        writeFails /\ plain.ok /\ plain.file # envFile))
  /\ UNCHANGED <<providers, isInitialized, dateSortedThumbnails, renderPointer,
                 listening, exchanges, page, initCalls, pendingAdds>>

\* removeProvider(providerType, instanceIndex)
DiskRemoveProvider ==
  /\ listening
  /\ \E providerType \in RequestTypes, writeFails \in BOOLEAN :
     \E instanceIndex \in 0..Len(listOf(providers, providerType)) :
     \E r \in {removeProviderOnDisk(managerState, envFile, providerType, instanceIndex,
                                    writeFails)} :
       /\ providers' = r.providers
       /\ dateSortedThumbnails' = r.thumbs
       /\ renderPointer' = r.pointer
       /\ envFile' = r.file
       /\ lastOp' = Returned(Op("removeProvider", providerType, instanceIndex, 0, <<>>,
                                ~r.threw),
                             DiskResult(r.threw, r.removed /\ writeFails))
  /\ UNCHANGED <<isInitialized, listening, exchanges, page, initCalls, pendingAdds>>

NextDisk ==
  Initialize \/ DiskAddProviderRoute \/ DiskUpdateEnvVariables \/ DiskRemoveProvider

SpecDisk == InitStored /\ [][NextDisk]_vars

-----------------------------------------------------------------------------
(* POST /add-provider with its suspension in await provider.listFiles(...), *)
(* during which the event loop serves other requests                        *)

\* POST /add-provider up to the await inside addProvider; when the new
\* instance does not authenticate nothing is awaited and the handler goes on
\* to writeEnvVariables and answers
AddProviderBegins ==
  /\ listening
  /\ \E providerType \in RequestTypes, credentials \in CredentialInputs :
     \E uid \in {freshUidBeside(providers, dateSortedThumbnails,
                                {a.uid : a \in pendingAdds})} :
     \E r \in addProviderWith(managerState, envFile, providerType, 0 - 1,
                              Listing(TRUE, <<>>), uid) :
     \E actualIndex \in {Len(listOf(r.providers, providerType)) - 1} :
     \E written \in {writeEnvVariables(r.providers, envFile, providerType, actualIndex,
                        <<"appKey", "appSecret", "refreshToken", "accessToken">>,
                        credentials)} :
       /\ Len(listOf(providers, providerType)) < MaxInitInstances
       /\ lineCount(envFile) + 4 <= MaxDiskLines
       /\ Len(dateSortedThumbnails) < MaxInitInstances
       /\ providers' = r.providers
       /\ IF r.providers[providerType][actualIndex + 1].authenticated
          THEN /\ Cardinality(pendingAdds) < MaxPendingAdds
               /\ pendingAdds' = pendingAdds \cup
                    {[providerType |-> providerType, actualIndex |-> actualIndex,
                      uid |-> uid, credentials |-> credentials,
                      issued |-> issuedToken(getValue(envFile,
                                   getEnvVariablePatterns(actualIndex).accessToken))]}
               /\ envFile' = envFile
               /\ lastOp' = Returned(Op("addProviderBegins", providerType, actualIndex, 0,
                                        <<>>, TRUE),
                                     [uid |-> uid, status |-> 0,
                                      instanceIndex |-> actualIndex])
          ELSE /\ pendingAdds' = pendingAdds
               /\ envFile' = written.file
               /\ lastOp' = Returned(Op("addProviderBegins", providerType, actualIndex, 0,
                                        <<>>, written.ok),
                                     [uid |-> uid,
                                      status |-> IF written.ok THEN 200 ELSE 500,
                                      instanceIndex |-> actualIndex])
  /\ UNCHANGED <<isInitialized, dateSortedThumbnails, renderPointer, listening,
                 exchanges, page, initCalls>>

\* the listing is answered: addProvider merges it, or throws; the handler
\* then reads the length of the list, writes the credentials and answers
AddProviderResumes ==
  \E a \in pendingAdds :
  \E reply \in (IF a.issued THEN ListingChoices(MaxListing) ELSE {Listing(TRUE, <<>>)}) :
  \E out \in (IF reply.threw
              THEN {[thumbs |-> dateSortedThumbnails, pointer |-> renderPointer]}
              ELSE addThumbnails(dateSortedThumbnails, renderPointer,
                                 listFiles(reply.entries, a.actualIndex, a.uid))) :
  \E assignedInstanceIndex \in {Len(listOf(providers, a.providerType)) - 1} :
  \E written \in {writeEnvVariables(providers, envFile, a.providerType,
                     assignedInstanceIndex,
                     <<"appKey", "appSecret", "refreshToken", "accessToken">>,
                     a.credentials)} :
    /\ pendingAdds' = pendingAdds \ {a}
    /\ dateSortedThumbnails' = out.thumbs
    /\ renderPointer' = out.pointer
    /\ envFile' = IF reply.threw THEN envFile ELSE written.file
    /\ lastOp' = Returned(Op("addProviderResumes", a.providerType, a.actualIndex, 0,
                             reply.entries, ~reply.threw /\ written.ok),
                          [uid |-> a.uid,
                           status |-> IF ~reply.threw /\ written.ok THEN 200 ELSE 500,
                           instanceIndex |-> assignedInstanceIndex])
    /\ UNCHANGED <<providers, isInitialized, listening, exchanges, page, initCalls>>

NextRace == Initialize \/ AddProviderBegins \/ AddProviderResumes \/ DiskRemoveProvider

SpecRace == InitStored /\ [][NextRace]_vars

-----------------------------------------------------------------------------
(* The OAuth round trip while instances are removed: exchanges holds the    *)
(* authorizations under way, each with the state string "providerType:index" *)
(* it carries, the provider object it was requested for (uid) and its phase  *)

\* GET /oauth/authorize?providerType=&index=: the state is issued and the
\* user sent to the remote; an instance that is not found is added first
AuthorizeRoute ==
  /\ listening
  /\ Cardinality(exchanges) < MaxExchanges
  /\ \E providerType \in RequestTypes :
     \E index \in 0..MaxInitInstances :
     \E found \in {getProvider(providers, providerType, index)} :
     \E listing \in repliesFor(providers, envFile, providerType, 0 - 1, MaxListing) :
     \E r \in (IF found.ok
               THEN {[providers |-> providers, thumbs |-> dateSortedThumbnails,
                      pointer |-> renderPointer, threw |-> FALSE]}
               ELSE addProvider(managerState, envFile, providerType, 0 - 1, listing)) :
     \E configured \in {~r.threw /\ truthy(getValue(envFile,
                                      getEnvVariablePatterns(index).appKey))} :
       /\ found.ok \/ Len(listOf(providers, providerType)) < MaxInitInstances
       /\ providers' = r.providers
       /\ dateSortedThumbnails' = r.thumbs
       /\ renderPointer' = r.pointer
       /\ exchanges' = IF configured
                       THEN exchanges \cup
                              {[providerType |-> providerType, indexNum |-> index,
                                uid |-> IF found.ok THEN found.provider.uid
                                        ELSE listOf(r.providers, providerType)
                                               [Len(listOf(r.providers, providerType))].uid,
                                phase |-> "redirect"]}
                       ELSE exchanges
       /\ lastOp' = Returned(Op("authorize", providerType, index, 0, <<>>, configured),
                             [status |-> IF configured THEN 302 ELSE 500])
  /\ UNCHANGED <<isInitialized, envFile, listening, page, initCalls, pendingAdds>>

\* GET /oauth/?code=&state= up to the await of exchangeCodeForToken
CallbackArrives ==
  \E x \in {y \in exchanges : y.phase = "redirect"} :
  \E found \in {getProvider(providers, x.providerType, x.indexNum)} :
  \E patterns \in {getEnvVariablePatterns(x.indexNum)} :
  \E goesOn \in {/\ found.ok
                 /\ truthy(getValue(envFile, patterns.appKey))
                 /\ truthy(getValue(envFile, patterns.appSecret))} :
    /\ listening
    /\ exchanges' = (exchanges \ {x}) \cup
                      (IF goesOn THEN {[x EXCEPT !.phase = "exchange"]} ELSE {})
    /\ lastOp' = Returned(Op("oauthCallback", x.providerType, x.indexNum, 0, <<>>, goesOn),
                          [uid |-> x.uid,
                           status |-> IF ~found.ok THEN 404
                                      ELSE IF goesOn THEN 0 ELSE 500])
    /\ UNCHANGED <<providers, isInitialized, envFile, dateSortedThumbnails,
                   renderPointer, listening, page, initCalls, pendingAdds>>

\* the token endpoint answers the exchange with tokens: updateEnvVariables,
\* addCredentials, redirect; an error thrown on the way is caught and logged
TokensArrive ==
  \E x \in {y \in exchanges : y.phase = "exchange"}, tokenData \in TokenResponses :
  \E updated \in {updateEnvVariables(providers, envFile, x.providerType, x.indexNum,
                     <<"accessToken", "refreshToken">>, tokenData)} :
  \E cred \in {addCredentials(providers, updated.file, x.providerType, x.indexNum)} :
    /\ lineCount(envFile) < MaxDiskLines
    /\ exchanges' = exchanges \ {x}
    /\ envFile' = updated.file
    /\ providers' = IF updated.ok THEN cred.providers ELSE providers
    /\ lastOp' = Returned(Op("oauthTokens", x.providerType, x.indexNum, 0, <<tokenData>>,
                             updated.ok),
                          [uid |-> x.uid, status |-> 302])
    /\ UNCHANGED <<isInitialized, dateSortedThumbnails, renderPointer,
                   listening, page, initCalls, pendingAdds>>

NextRoundTrip ==
  Initialize \/ RemoveProviderRoute \/ AuthorizeRoute \/ CallbackArrives \/ TokensArrive

SpecRoundTrip == InitStored /\ [][NextRoundTrip]_vars

-----------------------------------------------------------------------------
(* Every way an instance gets authenticated while requests are served *)

NextAuthenticate ==
  \/ Initialize
  \/ AddProviderBegins
  \/ AddProviderResumes
  \/ DiskRemoveProvider
  \/ OAuthCallback
  \/ OAuthTokens

SpecAuthenticate == InitStored /\ [][NextAuthenticate]_vars

-----------------------------------------------------------------------------
(* refreshToken called with whatever credentials the store holds *)

\* DropboxProvider.refreshToken(credentials, instanceIndex) as a whole: the
\* throw on a missing credential is caught and returned like any other error
refreshTokenWith(provider, file, credentials, instanceIndex, response) ==
  IF ~truthy(credentials.refreshToken) \/ ~truthy(credentials.appKey)
       \/ ~truthy(credentials.appSecret)
  THEN [result |-> [success |-> FALSE, error |-> "Failed to refresh access token",
                    requests |-> 0],
        provider |-> provider,
        file |-> file]
  ELSE refreshToken(provider, file, instanceIndex, response)

\* provider.refreshToken(credentials, index) with the credentials of the
\* instance as the store holds them; the remote accepts only a refresh token
\* it issued
RefreshCall ==
  /\ listening
  /\ \E providerType \in RequestTypes, indexNum \in 0..(MaxInstances - 1) :
     \E found \in {getProvider(providers, providerType, indexNum)} :
     \E patterns \in {getEnvVariablePatterns(indexNum)} :
     \E credentials \in {[appKey |-> getValue(envFile, patterns.appKey),
                          appSecret |-> getValue(envFile, patterns.appSecret),
                          refreshToken |-> getValue(envFile, patterns.refreshToken)]} :
     \E response \in RefreshResponses :
       /\ found.ok
       /\ response.error = "" => issuedToken(credentials.refreshToken)
       /\ response.error = "" => blankLines(envFile) < MaxBlankLines
       /\ \E r \in {refreshTokenWith(found.provider, envFile, credentials, indexNum,
                                     response)} :
            /\ providers' = setList(providers, providerType,
                               [listOf(providers, providerType) EXCEPT ![indexNum + 1] =
                                  r.provider])
            /\ envFile' = r.file
            /\ lastOp' = Returned(Op("refreshToken", providerType, indexNum, 0,
                                     <<response>>, r.result.success), r.result)
  /\ UNCHANGED <<isInitialized, dateSortedThumbnails, renderPointer, listening,
                 exchanges, page, initCalls, pendingAdds>>

NextRefresh == Initialize \/ RefreshCall

SpecRefresh == InitConfigured /\ [][NextRefresh]_vars

-----------------------------------------------------------------------------
(* writeEnvVariables over the .env files a user hands to the server *)

\* a file as an editor saves it without a final newline
unterminated(file) == SubSeq(file, 1, Len(file) - 1)

\* the documented .env files, saved with or without a final newline
HandWrittenFiles ==
  ConfiguredFiles \cup {unterminated(f) : f \in ConfiguredFiles \ {<<>>}}

InitHandWritten ==
  /\ providers = [t \in {} |-> <<>>]
  /\ isInitialized = FALSE
  /\ envFile \in HandWrittenFiles
  /\ dateSortedThumbnails = <<>>
  /\ renderPointer = 0
  /\ listening = FALSE
  /\ exchanges = {}
  /\ lastOp = Op("constructor", "", 0, 0, <<>>, TRUE)
  /\ page = <<>>
  /\ initCalls = [c \in 1..MaxInitCalls |-> IdleCall]
  /\ pendingAdds = {}

\* Object.keys(credentials) of the credentials objects passed
WrittenKeys ==
  { <<>>, <<"accessToken">>, <<"appKey", "appSecret">>, <<"appKey", "token">> }

WrittenCredentials ==
  [appKey |-> "kb", appSecret |-> "sb", accessToken |-> "at1", token |-> "x"]

\* the message of the error writeEnvVariables throws, "" if it returns
writeEnvVariablesError(provs, providerType, instanceIndex, keys) ==
  IF ~getProvider(provs, providerType, instanceIndex).ok
  THEN getProvider(provs, providerType, instanceIndex).error
  ELSE IF Len(keys) = 0 THEN "No credentials provided for writing"
  ELSE IF \E k \in 1..Len(keys) : keys[k] \notin validKeys THEN "Invalid credential key"
  ELSE ""

\* writeEnvVariables(providerType, instanceIndex, credentials)
WriteEnvVariables ==
  /\ listening
  /\ \E providerType \in RequestTypes, instanceIndex \in 0..MaxConfigured :
     \E keys \in WrittenKeys :
     \E r \in {writeEnvVariables(providers, envFile, providerType, instanceIndex, keys,
                                 WrittenCredentials)} :
       /\ lineCount(envFile) + Len(keys) <= MaxDiskLines
       /\ envFile' = r.file
       /\ lastOp' = Returned(Op("writeEnvVariables", providerType, instanceIndex, 0,
                                keys, r.ok),
                             [error |-> writeEnvVariablesError(providers, providerType,
                                                               instanceIndex, keys)])
  /\ UNCHANGED <<providers, isInitialized, dateSortedThumbnails, renderPointer,
                 listening, exchanges, page, initCalls, pendingAdds>>

NextWrite == Initialize \/ WriteEnvVariables

SpecWrite == InitHandWritten /\ [][NextWrite]_vars

-----------------------------------------------------------------------------
(* editLines in both of its modes *)

\* the forms of pattern an edit names a key with: `^KEY=` matches the start of
\* a line, `^KEY=.*$` the whole of it
EditPatterns == {"^KEY=", "^KEY=.*$"}

\* the text of a line the pattern of the edit matches, <<>> if it does not
matchedText(line, edit) ==
  IF ~startsWithKey(line, edit.key) THEN <<>>
  ELSE IF edit.pattern = "^KEY=" THEN SubSeq(line, 1, 2)
  ELSE line

\* one edit with replaceEntireLine true: content.replace(regex, newValue)
\* puts newValue in the place of every match of the pattern
replaceMatches(content, edit) ==
  LET lines == split(content)
      updatedLines == [k \in 1..Len(lines) |->
        IF startsWithKey(lines[k], edit.key)
        THEN edit.newValue \o
               SubSeq(lines[k], Len(matchedText(lines[k], edit)) + 1, Len(lines[k]))
        ELSE lines[k]]
      count == Cardinality({k \in 1..Len(lines) : startsWithKey(lines[k], edit.key)})
  IN [content |-> join(updatedLines), editCount |-> count]

\* editLines([edit]) for an edit with its replaceEntireLine flag
editLinesIn(file, edit) ==
  IF file = <<>> THEN file
  ELSE LET r == IF edit.replaceEntireLine THEN replaceMatches(file, edit)
                ELSE editValue(file, edit)
       IN IF r.editCount > 0 THEN writeEnvFile(r.content) ELSE file

\* EnvFileManager.editLines([{pattern, newValue, replaceEntireLine}])
StoreEditLinesIn ==
  \E key \in StoreKeys, value \in StoreValues, pattern \in EditPatterns :
  \E replaceEntireLine \in BOOLEAN :
  \E edit \in {[key |-> key, newValue |-> value, pattern |-> pattern,
                replaceEntireLine |-> replaceEntireLine]} :
    /\ editsMade < MaxStoreEdits
    /\ envFile' = editLinesIn(envFile, edit)
    /\ lastOp' = Op("editLines", "", 0, editsMade + 1, <<edit>>, TRUE)
    /\ UNCHANGED <<providers, isInitialized, dateSortedThumbnails, renderPointer,
                   listening, exchanges, initCalls, pendingAdds, page>>

NextEdit == StoreWriteLines \/ StoreEditLinesIn

SpecEdit == Init /\ [][NextEdit]_vars

-----------------------------------------------------------------------------
(* removeLines *)

\* patterns removeLines is called with: `^KEY=` for one key, `^[A-Z_]+_\d+=`
\* for every key
RemovePatterns == {[key |-> k, every |-> FALSE] : k \in StoreKeys}
                    \cup {[key |-> KeyTok("", "", 0), every |-> TRUE]}

\* whether the pattern matches at the start of the line
matchesAtStart(line, pattern) ==
  /\ Len(line) >= 2
  /\ line[1].t = "key"
  /\ line[2] = EQ
  /\ pattern.every \/ line[1] = pattern.key

\* regex.test(line) for a regex built with the flags 'gm': the search starts
\* at lastIndex, where an anchored pattern cannot match; a match leaves
\* lastIndex behind it, a failure resets it to 0
regexTest(line, pattern, lastIndex) ==
  IF lastIndex = 0 /\ matchesAtStart(line, pattern)
  THEN [found |-> TRUE, lastIndex |-> 2]
  ELSE [found |-> FALSE, lastIndex |-> 0]

\* lines.filter(line => !regex.test(line.trim())) from line k on, the regex
\* object being shared by all the calls
RECURSIVE filterFrom(_, _, _, _)
filterFrom(lines, pattern, k, lastIndex) ==
  IF k > Len(lines) THEN <<>>
  ELSE LET r == regexTest(lines[k], pattern, lastIndex)
       IN (IF r.found THEN <<>> ELSE <<lines[k]>>)
            \o filterFrom(lines, pattern, k + 1, r.lastIndex)

\* removeLines(pattern): [file, removedCount]
removeLines(file, pattern) ==
  IF file = <<>> THEN [file |-> file, removedCount |-> 0]
  ELSE LET lines == split(file)
           filteredLines == filterFrom(lines, pattern, 1, 0)
           removedCount == Len(lines) - Len(filteredLines)
       IN [file |-> IF removedCount > 0 THEN writeEnvFile(join(filteredLines)) ELSE file,
           removedCount |-> removedCount]

\* EnvFileManager.removeLines(pattern)
StoreRemoveLines ==
  \E pattern \in RemovePatterns :
  \E r \in {removeLines(envFile, pattern)} :
    /\ blankLines(envFile) < MaxBlankLines
    /\ envFile' = r.file
    /\ lastOp' = Returned(Op("removeLines", "", 0, 0, <<pattern>>, TRUE),
                          [removedCount |-> r.removedCount])
    /\ UNCHANGED <<providers, isInitialized, dateSortedThumbnails, renderPointer,
                   listening, exchanges, initCalls, pendingAdds, page>>


-----------------------------------------------------------------------------
(* Every writing operation of the store *)

\* texts writeEnvFile is called with: one line, with and without its newline
WrittenTexts ==
  UNION {{<<key, EQ>> \o value, <<key, EQ>> \o value \o <<NL>>} :
         key \in StoreKeys, value \in StoreValues}

\* EnvFileManager.writeEnvFile(content)
StoreWriteEnvFile ==
  \E content \in WrittenTexts :
    /\ blankLines(envFile) < MaxBlankLines
    /\ envFile' = writeEnvFile(content)
    /\ lastOp' = Op("writeEnvFile", "", 0, 0, <<content>>, TRUE)
    /\ UNCHANGED <<providers, isInitialized, dateSortedThumbnails, renderPointer,
                   listening, exchanges, initCalls, pendingAdds, page>>

NextNormalize ==
  \/ StoreWriteEnvFile
  \/ StoreWriteLines
  \/ StoreEditLines
  \/ StoreRemoveLines

SpecNormalize == Init /\ [][NextNormalize]_vars

-----------------------------------------------------------------------------
(* getValue and hasKey over stores with keys that begin alike *)

MaxValueLines == 3

\* keys asked for: suffix 1, suffix 10, and another field
ValueKeys ==
  {KeyTok("DROPBOX", "APP_KEY", 1), KeyTok("DROPBOX", "APP_KEY", 10),
   KeyTok("DROPBOX", "APP_SECRET", 1)}

\* lines of the stores: KEY_1 twice with different values, KEY_10, and a
\* value that holds an '='
ValueLines ==
  { <<KeyTok("DROPBOX", "APP_KEY", 1), EQ, ValTok("one")>>,
    <<KeyTok("DROPBOX", "APP_KEY", 1), EQ, ValTok("again")>>,
    <<KeyTok("DROPBOX", "APP_KEY", 10), EQ, ValTok("ten")>>,
    <<KeyTok("DROPBOX", "APP_KEY", 10), EQ, ValTok("a"), EQ, ValTok("b")>> }

InitValues ==
  /\ providers = [t \in {} |-> <<>>]
  /\ isInitialized = FALSE
  /\ envFile \in {writeLines(<<>>, lines) : lines \in SeqsOf(ValueLines, 0, MaxValueLines)}
  /\ dateSortedThumbnails = <<>>
  /\ renderPointer = 0
  /\ listening = FALSE
  /\ exchanges = {}
  /\ lastOp = Op("constructor", "", 0, 0, <<>>, TRUE)
  /\ page = <<>>
  /\ initCalls = [c \in 1..MaxInitCalls |-> IdleCall]
  /\ pendingAdds = {}

\* EnvFileManager.getValue(key) and EnvFileManager.hasKey(key)
StoreGetValue ==
  \E key \in ValueKeys :
    /\ lastOp' = Returned(Op("getValue", "", 0, 0, <<key>>, TRUE),
                          [value |-> getValue(envFile, key),
                           hasKey |-> hasKey(envFile, key)])
    /\ UNCHANGED <<providers, isInitialized, envFile, dateSortedThumbnails,
                   renderPointer, listening, exchanges, initCalls, pendingAdds, page>>

NextValues == StoreGetValue

SpecValues == InitValues /\ [][NextValues]_vars

-----------------------------------------------------------------------------
(* Properties of the merged index *)

\* the capture times of a sequence of records
Times(a) == [k \in 1..Len(a) |-> a[k].date_taken]

\* non-decreasing by timestamp: no record is followed, at any distance, by a
\* record with a smaller time (records without a valid time are not compared)
SortedByDate(a) ==
  \A m, n \in 1..Len(a) :
    (m < n /\ a[m].date_taken # NaN /\ a[n].date_taken # NaN)
      => a[m].date_taken <= a[n].date_taken

\* C4: in every reachable state the merged File Record sequence is
\* non-decreasing by timestamp.
C4_IndexSortedByTimestamp == SortedByDate(dateSortedThumbnails)

\* the name has an extension of the allow-list, compared case-insensitively
HasImageExtension(name) ==
  \E ext \in imageExtensions :
    /\ Len(name) > Len(ext)
    /\ toLowerCase(SubSeq(name, Len(name) - Len(ext) + 1, Len(name))) = ext

\* C5: only records whose file name has an extension of the image allow-list
\* are in the merged index; "photo" and ".bashrc" never are.
C5_OnlyImagesAdmitted ==
  \A k \in 1..Len(dateSortedThumbnails) :
    /\ HasImageExtension(dateSortedThumbnails[k].name)
    /\ dateSortedThumbnails[k].name # Chars_photo
    /\ dateSortedThumbnails[k].name # Chars_bashrc

\* number of occurrences of record r in sequence a
Count(a, r) == Cardinality({k \in 1..Len(a) : a[k] = r})

\* a is b with the records of c added, as multisets
IsMultisetUnion(a, b, c) ==
  \A r \in Range(a) \cup Range(b) \cup Range(c) : Count(a, r) = Count(b, r) + Count(c, r)

ImageRecords(files) == SelectSeq(files, LAMBDA f : HasImageExtension(f.name))

\* C6: merging batch B into an index holding A gives |A| + |image records of B|
\* records, the multiset union of A and the image records of B, sorted.
C6_MergeLengthAndMultiset ==
  [][lastOp'.kind = "addThumbnails" =>
       /\ Len(dateSortedThumbnails') =
            Len(dateSortedThumbnails) + Len(ImageRecords(lastOp'.files))
       /\ IsMultisetUnion(dateSortedThumbnails', dateSortedThumbnails,
                          ImageRecords(lastOp'.files))
       /\ SortedByDate(dateSortedThumbnails) => SortedByDate(dateSortedThumbnails')]_vars

\* C10: the render cursor equals the length of the merged index in every
\* reachable state.
C10_CursorIsLength == renderPointer = Len(dateSortedThumbnails)

LastCall == page[Len(page)]

\* C7: for 0 <= index < length and size > 0 the page holds the records at
\* ascending positions max(0, length-index-size) .. length-1-index, newest
\* first; with times 1..5, getPage(0,2) = [5,4] and getPage(2,2) = [3,2].
C7_PageIsNewestFirstWindow ==
  (Len(page) > 0 /\ LastCall.index >= 0 /\ LastCall.size > 0
     /\ LastCall.index < Len(dateSortedThumbnails)) =>
    LET length == Len(dateSortedThumbnails)
        lo == Max(0, length - LastCall.index - LastCall.size)
        hi == length - 1 - LastCall.index
        result == LastCall.result
    IN /\ Len(result) = hi - lo + 1
       /\ \A k \in 1..Len(result) : result[k] = dateSortedThumbnails[hi + 2 - k]
       /\ LastCall.index = 0 => Len(result) = Min(LastCall.size, length)
       /\ (Times(dateSortedThumbnails) = <<1, 2, 3, 4, 5>> /\ LastCall.size = 2) =>
            /\ LastCall.index = 0 => Times(result) = <<5, 4>>
            /\ LastCall.index = 2 => Times(result) = <<3, 2>>

C7_Witness ==
  /\ Times(dateSortedThumbnails) = <<1, 2, 3, 4, 5>>
  /\ Len(page) > 0
  /\ LastCall.index = 2 /\ LastCall.size = 2
  /\ Times(LastCall.result) = <<3, 2>>

\* C8: with the index unchanged between the calls, getPage(index, size) then
\* getPage(index+size, size), both offsets within bounds, give together the
\* contiguous newest-first run that starts at offset index: nothing repeated,
\* nothing skipped.
C8_ConsecutivePagesPartition ==
  (/\ Len(page) = 2
   /\ page[1].size > 0 /\ page[1].index >= 0
   /\ page[2].size = page[1].size
   /\ page[2].index = page[1].index + page[1].size
   /\ page[2].index < Len(dateSortedThumbnails)) =>
    LET length == Len(dateSortedThumbnails)
        both == page[1].result \o page[2].result
    IN /\ Len(page[1].result) = page[1].size
       /\ Len(both) = Min(2 * page[1].size, length - page[1].index)
       /\ \A k \in 1..Len(both) : both[k] = dateSortedThumbnails[length - page[1].index + 1 - k]

C8_Witness ==
  /\ Len(page) = 2
  /\ Len(dateSortedThumbnails) = 5
  /\ page[1].index = 1 /\ page[1].size = 2
  /\ page[2].index = 3 /\ page[2].size = 2
  /\ Len(page[1].result \o page[2].result) = 4

\* C9: getPage returns the empty list whenever index < 0, size <= 0,
\* index >= length, or the merged index is empty.
C9_EmptyPageOutsideBounds ==
  (/\ Len(page) > 0
   /\ \/ LastCall.index < 0
      \/ LastCall.size <= 0
      \/ LastCall.index >= Len(dateSortedThumbnails)
      \/ Len(dateSortedThumbnails) = 0) => LastCall.result = <<>>

C9_Witness ==
  /\ Len(page) > 0
  /\ Len(dateSortedThumbnails) >= 2
  /\ LastCall.index < 0 /\ LastCall.size > 0
  /\ LastCall.result = <<>>

-----------------------------------------------------------------------------
(* Properties of the manager and the credential store *)

\* positions of the instance list that hold a provider object
InstanceIndices(providerType) ==
  {k - 1 : k \in {m \in 1..Len(listOf(providers, providerType)) :
                    listOf(providers, providerType)[m] # NullProvider}}

\* the credential lines of a provider type, in file order
CredentialLines(file, providerType) ==
  SelectSeq(split(file), LAMBDA l : isInstanceLine(l, toUpperCaseType(providerType)))

\* the numeric suffixes of the credential keys of a provider type
KeySuffixes(file, providerType) ==
  {CredentialLines(file, providerType)[k][1].idx :
     k \in 1..Len(CredentialLines(file, providerType))}

C2_RemovalKeepsTagsResolving ==
  [][(lastOp'.kind = "removeProviderRoute" /\ lastOp'.ok) =>
       /\ dateSortedThumbnails' =
            SelectSeq(dateSortedThumbnails, LAMBDA r :
              ~(r.providerType = lastOp'.providerType /\ r.instanceIndex = lastOp'.index))
       /\ \A k \in 1..Len(dateSortedThumbnails') :
            LET r == dateSortedThumbnails'[k]
                found == getProvider(providers', r.providerType, r.instanceIndex)
            IN found.ok /\ found.provider.uid = r.origin]_vars

\* a remaining record carries a tag that no longer names its provider object
C2_Witness ==
  /\ lastOp.kind = "removeProviderRoute" /\ lastOp.ok
  /\ \E k \in 1..Len(dateSortedThumbnails) :
       LET r == dateSortedThumbnails[k]
           found == getProvider(providers, r.providerType, r.instanceIndex)
       IN ~found.ok \/ found.provider.uid # r.origin

-----------------------------------------------------------------------------
(* Properties of the credential store on its own *)

\* the file holds a line `${key}=...`
hasLine(file, key) == \E k \in 1..Len(split(file)) : startsWithKey(split(file)[k], key)

\* C11: on a store that holds a line KEY=old, editLines([{'^KEY=', X}])
\* followed by getValue(KEY) gives X and the number of lines of the store is
\* the same as before the edit, for each edit of a sequence of edits.
C11_EditRoundTripKeepsLineCount ==
  [][(lastOp'.kind = "editLines" /\ hasLine(envFile, lastOp'.files[1].key)) =>
       /\ getValue(envFile', lastOp'.files[1].key) = lastOp'.files[1].newValue
       /\ lineCount(envFile') = lineCount(envFile)]_vars

\* an edit of a line the store held gave the value back and one more line
C11_Witness ==
  /\ lastOp.kind = "editLines"
  /\ getValue(envFile, lastOp.files[1].key) = lastOp.files[1].newValue
  /\ lineCount(envFile) = 2
  /\ Len(CredentialLines(envFile, "dropbox")) = 1

-----------------------------------------------------------------------------
(* Properties of the provider map on its own *)

\* C12: getProvider(type, index) fails with a not-found error when the type
\* has no instances, with an index-out-of-range error when index is outside
\* 0..length-1 and with an instance-missing error when the slot is a hole;
\* otherwise it returns the instance at that position; and it never changes
\* the provider map.
C12_GetProviderErrorsAndResult ==
  [][lastOp'.kind = "getProvider" =>
       \A list \in {listOf(providers, lastOp'.providerType)}, index \in {lastOp'.index} :
         /\ providers' = providers
         /\ Len(list) = 0 => (~lastOp'.ok /\ lastOp'.result.error = "NotFound")
         /\ (Len(list) > 0 /\ (index < 0 \/ index >= Len(list))) =>
              (~lastOp'.ok /\ lastOp'.result.error = "IndexOutOfRange")
         /\ (index >= 0 /\ index < Len(list)) =>
              IF list[index + 1] = NullProvider
              THEN ~lastOp'.ok /\ lastOp'.result.error = "InstanceMissing"
              ELSE lastOp'.ok /\ lastOp'.result.provider = list[index + 1]]_vars

\* a lookup of a hole left below an instance that was added at index 2
C12_Witness ==
  /\ lastOp.kind = "getProvider" /\ lastOp.index = 1
  /\ Len(listOf(providers, lastOp.providerType)) = 3
  /\ listOf(providers, lastOp.providerType)[2] = NullProvider
  /\ lastOp.result.error = "InstanceMissing"

-----------------------------------------------------------------------------
(* Properties of initialize() called more than once *)

\* two records of the index that came from the same file of the same instance
mergedTwice(thumbs) ==
  \E k, m \in 1..Len(thumbs) :
    /\ k # m
    /\ thumbs[k].id = thumbs[m].id
    /\ thumbs[k].providerType = thumbs[m].providerType
    /\ thumbs[k].instanceIndex = thumbs[m].instanceIndex

\* C13: initialize() runs once however often and whenever it is called: at
\* most one call performs the scan and creates the instances, and no stored
\* instance's listing is merged into the index twice
C13_InitializeRunsOnce ==
  /\ Cardinality({c \in DOMAIN initCalls : initCalls[c].scanned}) <= 1
  /\ ~mergedTwice(dateSortedThumbnails)

\* both calls returned, the second one made while the first was suspended in
\* a listing, and the index holds a listed file twice
C13_Witness ==
  /\ \A c \in DOMAIN initCalls : initCalls[c].pc = "done" /\ initCalls[c].scanned
  /\ isInitialized
  /\ mergedTwice(dateSortedThumbnails)

-----------------------------------------------------------------------------
(* Properties of the OAuth callback *)

\* C14: after a callback whose code exchange succeeded for instance (type, i),
\* an instance with app key and app secret on file, the store holds the two
\* returned tokens under the instance's accessToken and refreshToken keys and
\* the instance reports authenticated, whether or not it held token lines
C14_ExchangeStoresTokens ==
  [][(/\ lastOp'.kind = "oauthTokens"
      /\ getProvider(providers, lastOp'.providerType, lastOp'.index).ok
      /\ truthy(getValue(envFile, getEnvVariablePatterns(lastOp'.index).appKey))
      /\ truthy(getValue(envFile, getEnvVariablePatterns(lastOp'.index).appSecret)))
     => \A patterns \in {getEnvVariablePatterns(lastOp'.index)} :
        \A tokenData \in {lastOp'.files[1]} :
          /\ getValue(envFile', patterns.accessToken) = <<ValTok(tokenData.accessToken)>>
          /\ getValue(envFile', patterns.refreshToken) = <<ValTok(tokenData.refreshToken)>>
          /\ getProvider(providers', lastOp'.providerType, lastOp'.index).provider.authenticated
    ]_vars

\* the callback returned for an instance whose file holds no token lines:
\* nothing was stored and the instance does not report authenticated
C14_Witness ==
  /\ lastOp.kind = "oauthTokens"
  /\ lastOp.ok
  /\ getValue(envFile, getEnvVariablePatterns(lastOp.index).accessToken) = null
  /\ ~getProvider(providers, lastOp.providerType, lastOp.index).provider.authenticated

\* C15: a refresh that fails with invalid_grant on an authenticated instance
\* is returned as an error result after a single request to the token
\* endpoint, and leaves the instance not reporting authenticated
C15_FailedRefreshRequiresReauthorization ==
  [][(/\ lastOp'.kind = "refresh"
      /\ lastOp'.files[1].error = "invalid_grant"
      /\ getProvider(providers, lastOp'.providerType, lastOp'.index).provider.authenticated)
     => /\ ~lastOp'.result.success
        /\ lastOp'.result.error # ""
        /\ lastOp'.result.requests = 1
        /\ ~getProvider(providers', lastOp'.providerType, lastOp'.index).provider.authenticated
    ]_vars

\* a refresh was rejected with invalid_grant and the instance still reports
\* authenticated
C15_Witness ==
  /\ lastOp.kind = "refresh"
  /\ lastOp.files[1].error = "invalid_grant"
  /\ ~lastOp.result.success
  /\ getProvider(providers, lastOp.providerType, lastOp.index).provider.authenticated

-----------------------------------------------------------------------------
(* Properties of the thumbnail page request *)

\* C16: a thumbnail page request over a non-empty page answers with one entry
\* per record of the page, each carrying image data or an error; a record
\* whose fetch fails or whose provider instance cannot be resolved gets an
\* error entry and never fails the whole request
C16_OneEntryPerRecord ==
  lastOp.kind = "getThumbnails" =>
    \A records \in {getThumbnailObjects(dateSortedThumbnails, lastOp.index, lastOp.size)} :
      records # <<>> =>
        /\ lastOp.result.status = 200
        /\ Len(lastOp.result.body) = Len(records)
        /\ \A k \in 1..Len(records) :
             /\ lastOp.result.body[k].record = records[k]
             /\ lastOp.result.body[k].thumbnail.success
                  = (lastOp.result.body[k].thumbnail.error = "")

\* a page request over a non-empty page was answered 500 because the
\* instance of one of its records could not be resolved
C16_Witness ==
  /\ lastOp.kind = "getThumbnails"
  /\ lastOp.result.status = 500
  /\ \E records \in {getThumbnailObjects(dateSortedThumbnails, lastOp.index, lastOp.size)} :
       /\ records # <<>>
       /\ \E k \in 1..Len(records) :
            ~getProvider(providers, records[k].providerType, records[k].instanceIndex).ok

-----------------------------------------------------------------------------
(* Properties of the manager over a failing disk *)

\* C17: a write of the credential file that fails during an add, an update
\* or a removal propagates as an error to the caller, and removeProvider
\* never returns normally having removed the instance from memory while the
\* file was not rewritten
C17_WriteFailurePropagates ==
  [][(lastOp'.kind \in {"addProvider", "updateEnvVariables", "removeProvider"})
     => /\ lastOp'.result.writeFailed => lastOp'.result.threw
        /\ (/\ lastOp'.kind = "removeProvider"
            /\ ~lastOp'.result.threw
            /\ providers' # providers)
           => envFile' = removeInstanceEnvVariable(envFile, lastOp'.providerType,
                                                   lastOp'.index)
    ]_vars

\* removeProvider returned normally after a failed write: the instance is
\* gone from memory and its lines are still on file
C17_Witness ==
  /\ lastOp.kind = "removeProvider"
  /\ lastOp.result.writeFailed
  /\ ~lastOp.result.threw
  /\ Len(listOf(providers, lastOp.providerType)) = lastOp.index
  /\ hasLine(envFile, getEnvVariablePatterns(lastOp.index).appKey)

\* a credential key that heads two lines of the file
keyOnTwoLines(lines) ==
  \E k, m \in 1..Len(lines) : k # m /\ lines[k][1] = lines[m][1]

\* C18: in every reachable state each credential key occurs on at most one
\* line of the file, and after a removal no key carries a suffix that is not
\* the index of an existing instance
C18_KeysUniqueAndSuffixesLive ==
  \A providerType \in RequestTypes :
  \A lines \in {CredentialLines(envFile, providerType)} :
    /\ ~keyOnTwoLines(lines)
    /\ (lastOp.kind \in {"removeProviderRoute", "removeProvider"}
        /\ lastOp.providerType = providerType)
       => {lines[k][1].idx : k \in 1..Len(lines)} \subseteq InstanceIndices(providerType)

\* an instance was added after a removal whose write failed: the keys of
\* index 0 are on file twice
C18_Witness ==
  /\ lastOp.kind = "addProvider"
  /\ ~lastOp.result.threw
  /\ keyOnTwoLines(CredentialLines(envFile, lastOp.providerType))

-----------------------------------------------------------------------------
(* Properties of the manager's handling of failed lookups *)

\* C19: an operation of the manager that names an unknown provider type or
\* an index out of range tells its caller of the error: removeProvider
\* throws, DELETE /remove-provider answers an error status, addCredentials
\* does not report success
C19_LookupErrorsSurface ==
  [][(/\ lastOp'.kind \in {"removeProvider", "removeProviderRoute", "addCredentials"}
      /\ lastOp'.index >= 0
      /\ getProvider(providers, lastOp'.providerType, lastOp'.index).error
           \in {"NotFound", "IndexOutOfRange"})
     => /\ lastOp'.kind = "removeProvider" => lastOp'.result.threw
        /\ lastOp'.kind = "removeProviderRoute" => lastOp'.result.status >= 400
        /\ lastOp'.kind = "addCredentials" =>
             lastOp'.result.threw \/ ~lastOp'.result.authenticated
    ]_vars

\* DELETE /remove-provider naming an index past the end of a list that holds
\* an instance was answered 200 and changed nothing
C19_Witness ==
  /\ lastOp.kind = "removeProviderRoute"
  /\ lastOp.result.status = 200
  /\ ~lastOp.ok
  /\ Len(listOf(providers, lastOp.providerType)) > 0
  /\ lastOp.index >= Len(listOf(providers, lastOp.providerType))

-----------------------------------------------------------------------------
(* Properties of the merge on equal timestamps *)

\* the ways of placing n records, in their order, among m positions
Embeddings(n, m) ==
  {f \in [1..n -> 1..m] : \A a, b \in 1..n : a < b => f[a] < f[b]}

\* C20: a merge keeps the records already present in their relative order,
\* and puts each of them before every new record of the same timestamp
C20_MergeIsStable ==
  [][(/\ lastOp'.kind = "addThumbnails"
      /\ Len(dateSortedThumbnails) > 0
      /\ Len(dateSortedThumbnails') > Len(dateSortedThumbnails))
     => \E f \in Embeddings(Len(dateSortedThumbnails), Len(dateSortedThumbnails')) :
          /\ \A k \in 1..Len(dateSortedThumbnails) :
               dateSortedThumbnails'[f[k]] = dateSortedThumbnails[k]
          /\ \A q \in 1..Len(dateSortedThumbnails') :
             \A k \in 1..Len(dateSortedThumbnails) :
               (/\ \A m \in 1..Len(dateSortedThumbnails) : f[m] # q
                /\ dateSortedThumbnails'[q].date_taken # NaN
                /\ dateSortedThumbnails'[q].date_taken = dateSortedThumbnails[k].date_taken)
               => f[k] < q
    ]_vars

\* a record of the batch just merged stands before a record that was already
\* present and has the same timestamp
C20_Witness ==
  /\ lastOp.kind = "addThumbnails"
  /\ \E q, k \in 1..Len(dateSortedThumbnails) :
       /\ q < k
       /\ dateSortedThumbnails[q] \in Range(lastOp.files)
       /\ Count(dateSortedThumbnails, dateSortedThumbnails[q]) = 1
       /\ dateSortedThumbnails[k] \notin Range(lastOp.files)
       /\ dateSortedThumbnails[q].date_taken # NaN
       /\ dateSortedThumbnails[q].date_taken = dateSortedThumbnails[k].date_taken

-----------------------------------------------------------------------------
(* Properties of a removal seen from the merged index *)

\* C21: removing instance i purges the records of the instance that stood at
\* index i when the removal was called and keeps every other record: no
\* record is purged or kept on the basis of an index that a shift has changed
C21_RemovalPurgesByInstance ==
  [][(lastOp'.kind = "removeProviderRoute" /\ lastOp'.ok)
     => \A removed \in {listOf(providers, lastOp'.providerType)[lastOp'.index + 1]} :
          dateSortedThumbnails' =
            SelectSeq(dateSortedThumbnails, LAMBDA r : r.origin # removed.uid)
    ]_vars

\* the last instance was removed and a record it produced is still indexed
C21_Witness ==
  /\ lastOp.kind = "removeProviderRoute"
  /\ lastOp.ok
  /\ Len(listOf(providers, lastOp.providerType)) = 0
  /\ Len(dateSortedThumbnails) > 0

-----------------------------------------------------------------------------
(* Properties of add-provider requests that overlap other requests *)

\* C22: the records an add-provider request merges are tagged with the index
\* its instance has when the request completes: no removal or other addition
\* took effect between the insertion of the instance and the merge
C22_MergedTagsNameTheInstance ==
  [][(lastOp'.kind = "addProviderResumes")
     => \A k \in 1..Len(dateSortedThumbnails') :
        \A r \in {dateSortedThumbnails'[k]} :
          r.origin = lastOp'.result.uid
          => \A found \in {getProvider(providers', r.providerType, r.instanceIndex)} :
               found.ok /\ found.provider.uid = r.origin
    ]_vars

\* an add-provider request merged its listing after its instance had been
\* removed: the record names an index that holds no instance
C22_Witness ==
  /\ lastOp.kind = "addProviderResumes"
  /\ \E k \in 1..Len(dateSortedThumbnails) :
       /\ dateSortedThumbnails[k].origin = lastOp.result.uid
       /\ ~getProvider(providers, dateSortedThumbnails[k].providerType,
                       dateSortedThumbnails[k].instanceIndex).ok

-----------------------------------------------------------------------------
(* Properties of the OAuth round trip *)

\* positions (0-based) at which the list of a type holds the provider object uid
indicesOf(provs, providerType, uid) ==
  {k - 1 : k \in {m \in 1..Len(listOf(provs, providerType)) :
                    listOf(provs, providerType)[m].uid = uid}}

\* C23: the tokens a code exchange returns are persisted under the keys of,
\* and authenticate, the instance the authorization was requested for, if it
\* still exists, also when another instance of the type was removed while
\* the redirect or the token request was in flight
C23_TokensReachTheInstance ==
  [][(/\ lastOp'.kind = "oauthTokens"
      /\ indicesOf(providers, lastOp'.providerType, lastOp'.result.uid) # {})
     => \E j \in indicesOf(providers', lastOp'.providerType, lastOp'.result.uid) :
        \A patterns \in {getEnvVariablePatterns(j)} :
        \A tokenData \in {lastOp'.files[1]} :
          /\ listOf(providers', lastOp'.providerType)[j + 1].authenticated
          /\ getValue(envFile', patterns.accessToken) = <<ValTok(tokenData.accessToken)>>
          /\ getValue(envFile', patterns.refreshToken) = <<ValTok(tokenData.refreshToken)>>
    ]_vars

\* the tokens arrived for state dropbox:1 after instance 0 had been removed:
\* the instance asked for is now at index 0 and its keys hold other tokens
C23_Witness ==
  /\ lastOp.kind = "oauthTokens"
  /\ lastOp.index = 1
  /\ indicesOf(providers, lastOp.providerType, lastOp.result.uid) = {0}
  /\ getValue(envFile, getEnvVariablePatterns(0).accessToken)
       # <<ValTok(lastOp.files[1].accessToken)>>

-----------------------------------------------------------------------------
(* Properties of authentication *)

\* the provider objects of the map that report authenticated
authenticatedUids(provs) ==
  UNION {{provs[t][k].uid : k \in {m \in 1..Len(provs[t]) : provs[t][m].authenticated}} :
         t \in DOMAIN provs}

\* C24: when a request makes an instance authenticated, from stored
\* credentials inside addProvider or through a successful OAuth callback, a
\* listing of that instance is requested, to be merged before the request ends
C24_AuthenticationTriggersListing ==
  [][(lastOp'.kind \in {"addProviderBegins", "oauthTokens"})
     => \A uid \in authenticatedUids(providers') \ authenticatedUids(providers) :
          \E a \in pendingAdds' : a.uid = uid
    ]_vars

\* an OAuth callback has authenticated an instance and ended: no listing of
\* the instance is under way and the index holds no record of it
C24_Witness ==
  /\ lastOp.kind = "oauthTokens"
  /\ lastOp.ok
  /\ pendingAdds = {}
  /\ \E found \in {getProvider(providers, lastOp.providerType, lastOp.index)} :
       /\ found.ok
       /\ found.provider.authenticated
       /\ \A k \in 1..Len(dateSortedThumbnails) :
            dateSortedThumbnails[k].origin # found.provider.uid

\* C25: an instance reports authenticated only when an access token and a
\* refresh token issued by the token endpoint are stored for its index: an
\* instance added with appKey and appSecret alone stays unauthenticated until
\* a code exchange succeeds, a re-initialization in between included
C25_AuthenticatedOnlyWithIssuedTokens ==
  \A t \in DOMAIN providers : \A k \in 1..Len(providers[t]) :
    providers[t][k].authenticated
      => /\ issuedToken(getValue(envFile, getEnvVariablePatterns(k - 1).accessToken))
         /\ issuedToken(getValue(envFile, getEnvVariablePatterns(k - 1).refreshToken))

\* initialize() has rebuilt from the store an instance that was added with
\* appKey and appSecret alone, and the instance reports authenticated
C25_Witness ==
  /\ lastOp.kind = "initialize"
  /\ \E t \in DOMAIN providers : \E k \in 1..Len(providers[t]) :
       /\ providers[t][k].authenticated
       /\ truthy(getValue(envFile, getEnvVariablePatterns(k - 1).appKey))
       /\ getValue(envFile, getEnvVariablePatterns(k - 1).accessToken) = <<ValTok("undefined")>>
       /\ getValue(envFile, getEnvVariablePatterns(k - 1).refreshToken) = <<ValTok("undefined")>>

-----------------------------------------------------------------------------
(* Properties of the provider lists *)

\* C27: between operations no provider list has a hole: once addProvider or
\* initialize has completed, every slot below the length of a list holds an
\* instance, so an in-range getProvider never meets a missing slot
C27_NoHolesBetweenOperations ==
  \A t \in DOMAIN providers : \A k \in 1..Len(providers[t]) :
    /\ providers[t][k] # NullProvider
    /\ getProvider(providers, t, k - 1).ok

\* addProvider(type, index) has completed with index beyond the end of the
\* list, and a slot below index is missing
C27_Witness ==
  /\ lastOp.kind = "addProvider"
  /\ lastOp.ok
  /\ lastOp.index > 0
  /\ lastOp.providerType \in DOMAIN providers
  /\ Len(providers[lastOp.providerType]) = lastOp.index + 1
  /\ providers[lastOp.providerType][lastOp.index] = NullProvider
  /\ providers[lastOp.providerType][lastOp.index + 1] # NullProvider

\* C28: initialize() creates an instance at every index from 0 to the largest
\* app-key index of each type; an index whose listing fails is left with an
\* unauthenticated instance, and the instances of the other indices are
\* created all the same
C28_InitializeCreatesEveryIndex ==
  [][/\ (lastOp'.kind = "initializeResumed" /\ ~lastOp'.ok)
          => \E found \in {getProvider(providers', lastOp'.providerType, lastOp'.index)} :
               found.ok /\ ~found.provider.authenticated
     /\ \A c \in 1..MaxInitCalls :
          (initCalls'[c].pc = "done" /\ initCalls'[c].scanned)
            => \A t \in Range(initCalls'[c].types) :
               \A i \in 0..scanMaxIndex(split(envFile'), t) :
                 getProvider(providers', t, i).ok
    ]_vars

\* the listing of an instance failed during initialize() and the instance
\* left at its index reports authenticated
C28_Witness ==
  /\ lastOp.kind = "initializeResumed"
  /\ ~lastOp.ok
  /\ getProvider(providers, lastOp.providerType, lastOp.index).ok
  /\ getProvider(providers, lastOp.providerType, lastOp.index).provider.authenticated

-----------------------------------------------------------------------------
(* Properties of writeEnvVariables *)

\* the lines of the file: the pieces between its newlines, without the empty
\* piece after a final newline
storedLines(file) ==
  LET pieces == split(file)
  IN IF pieces[Len(pieces)] = <<>> THEN SubSeq(pieces, 1, Len(pieces) - 1) ELSE pieces

\* C29: writeEnvVariables fails with the invalid-key error when a supplied key
\* is none of appKey, appSecret, accessToken, refreshToken; then, and when the
\* lookup of the instance fails, the store is unchanged; otherwise the store
\* is its former lines, unchanged, followed by one line KEY=value per supplied
\* field under the key names of the instance index
C29_WriteAppendsOneLinePerField ==
  [][(lastOp'.kind = "writeEnvVariables")
     => \A keys \in {lastOp'.files} :
        \A patterns \in {getEnvVariablePatterns(lastOp'.index)} :
        \A found \in {getProvider(providers, lastOp'.providerType, lastOp'.index)} :
          /\ (found.ok /\ \E k \in 1..Len(keys) : keys[k] \notin validKeys)
               => lastOp'.result.error = "Invalid credential key"
          /\ IF ~found.ok \/ \E k \in 1..Len(keys) : keys[k] \notin validKeys
             THEN envFile' = envFile
             ELSE storedLines(envFile') =
                    storedLines(envFile) \o
                      [k \in 1..Len(keys) |->
                         <<patterns[keys[k]], EQ, ValTok(WrittenCredentials[keys[k]])>>]
    ]_vars

\* credentials were written to a file that did not end with a newline: the
\* last line it had is changed
C29_Witness ==
  /\ lastOp.kind = "writeEnvVariables"
  /\ lastOp.ok
  /\ \E k \in 1..Len(storedLines(envFile)) :
       Cardinality({n \in 1..Len(storedLines(envFile)[k]) :
                      storedLines(envFile)[k][n] = EQ}) > 1

-----------------------------------------------------------------------------
(* Properties of editLines *)

\* C30: editLines with replaceEntireLine true makes every line its pattern
\* matches equal to newValue; with replaceEntireLine false it replaces the text
\* after the first '=' of every matched line and keeps the key; in both modes
\* the lines the pattern does not match are unchanged
C30_EditLinesModes ==
  [][(lastOp'.kind = "editLines")
     => \A edit \in {lastOp'.files[1]} :
        \A k \in 1..Len(storedLines(envFile)) :
        \A line \in {storedLines(envFile)[k]} :
          /\ k <= Len(split(envFile'))
          /\ split(envFile')[k] =
               IF ~startsWithKey(line, edit.key) THEN line
               ELSE IF edit.replaceEntireLine THEN edit.newValue
               ELSE <<edit.key, EQ>> \o edit.newValue
    ]_vars

\* an edit with replaceEntireLine true and a pattern for the start of the
\* line has matched a line, and the line is not newValue
C30_Witness ==
  /\ lastOp.kind = "editLines"
  /\ lastOp.files[1].replaceEntireLine
  /\ lastOp.files[1].pattern = "^KEY="
  /\ \E k \in 1..Len(storedLines(envFile)) :
       /\ Len(storedLines(envFile)[k]) > Len(lastOp.files[1].newValue)
       /\ SubSeq(storedLines(envFile)[k], 1, Len(lastOp.files[1].newValue)) =
            lastOp.files[1].newValue

-----------------------------------------------------------------------------
(* Properties of removeLines *)

\* the lines of the file that hold text
textLines(file) == SelectSeq(storedLines(file), LAMBDA l : l # <<>>)

\* C31: removeLines(pattern) removes every line the pattern matches, adjacent
\* ones included, leaves the other lines as they were, and returns the number
\* of lines it removed
C31_RemoveLinesRemovesEveryMatch ==
  [][(lastOp'.kind = "removeLines")
     => \A pattern \in {lastOp'.files[1]} :
          /\ textLines(envFile') =
               SelectSeq(textLines(envFile), LAMBDA l : ~matchesAtStart(l, pattern))
          /\ lastOp'.result.removedCount =
               Len(textLines(envFile)) - Len(textLines(envFile'))
    ]_vars

\* removeLines has removed a line and a line its pattern matches is still in
\* the store
C31_Witness ==
  /\ lastOp.kind = "removeLines"
  /\ lastOp.result.removedCount > 0
  /\ \E k \in 1..Len(textLines(envFile)) :
       matchesAtStart(textLines(envFile)[k], lastOp.files[1])

\* C32: whatever sequence of writeEnvFile, writeLines, editLines and
\* removeLines led to it, a store that is not empty ends with exactly one
\* newline and holds no empty line
C32_OneTrailingNewline ==
  envFile # <<>>
    => /\ envFile[Len(envFile)] = NL
       /\ Len(envFile) >= 2 => envFile[Len(envFile) - 1] # NL
       /\ blankLines(envFile) = 0

\* an edit has rewritten a store that ended with one newline, and the store
\* now ends with two
C32_Witness ==
  /\ lastOp.kind = "editLines"
  /\ Len(envFile) >= 3
  /\ envFile[Len(envFile)] = NL
  /\ envFile[Len(envFile) - 1] = NL
  /\ envFile[Len(envFile) - 2] # NL

-----------------------------------------------------------------------------
(* Properties of the store under interleaved requests *)

-----------------------------------------------------------------------------
(* Properties of batches without images *)

\* C34: addThumbnails with a batch in which no record is an image leaves the
\* merged index and the render pointer as they were
C34_BatchWithoutImagesIsNoOp ==
  [][(/\ lastOp'.kind = "addThumbnails"
      /\ \A k \in 1..Len(lastOp'.files) : ~isImageResolved(lastOp'.files[k]))
     => /\ dateSortedThumbnails' = dateSortedThumbnails
        /\ renderPointer' = renderPointer
    ]_vars

\* a batch that held records and no image among them was added, and its
\* first record is in the index
C34_Witness ==
  /\ lastOp.kind = "addThumbnails"
  /\ Len(lastOp.files) > 0
  /\ \A k \in 1..Len(lastOp.files) : ~isImageResolved(lastOp.files[k])
  /\ \E k \in 1..Len(dateSortedThumbnails) : dateSortedThumbnails[k] = lastOp.files[1]

-----------------------------------------------------------------------------
(* Properties of a failing addProvider *)

\* C35: when addProvider fails, for a type without a registered class or for
\* any other reason, the provider map is exactly as it was: no entry, no
\* empty list and no instance has been added
C35_FailedAddLeavesMapUnchanged ==
  [][(lastOp'.kind = "addProvider" /\ ~lastOp'.ok) => providers' = providers]_vars

\* addProvider has failed for a type without a registered class, and the map
\* holds an empty list under that type
C35_Witness ==
  /\ lastOp.kind = "addProvider"
  /\ ~lastOp.ok
  /\ ~getProviderClass(lastOp.providerType).ok
  /\ lastOp.providerType \in DOMAIN providers
  /\ providers[lastOp.providerType] = <<>>

-----------------------------------------------------------------------------
(* Properties of the index an add-provider request answers with *)

\* C36: the index an add-provider request answers with is the position of the
\* instance the request created, and the request writes its credentials under
\* that suffix and under no suffix that already held credentials, whatever
\* other requests ran while it was suspended
C36_AnsweredIndexIsOwnPosition ==
  [][(/\ lastOp'.kind \in {"addProviderBegins", "addProviderResumes"}
      /\ lastOp'.result.status = 200)
     => \A found \in {getProvider(providers', lastOp'.providerType,
                                  lastOp'.result.instanceIndex)} :
        \A patterns \in {getEnvVariablePatterns(lastOp'.result.instanceIndex)} :
          /\ found.ok
          /\ found.provider.uid = lastOp'.result.uid
          /\ ~hasLine(envFile, patterns.appKey)
          /\ hasLine(envFile', patterns.appKey)
    ]_vars

\* two add-provider requests overlapped: the one that was suspended answers
\* with the index of the instance the other one created, and the store holds
\* two app-key lines under that suffix
C36_Witness ==
  /\ lastOp.kind = "addProviderResumes"
  /\ lastOp.result.status = 200
  /\ lastOp.result.instanceIndex # lastOp.index
  /\ \E found \in {getProvider(providers, lastOp.providerType, lastOp.result.instanceIndex)} :
       found.ok /\ found.provider.uid # lastOp.result.uid
  /\ \E k \in 1..Len(listOf(providers, lastOp.providerType)) :
       /\ k - 1 = lastOp.index
       /\ listOf(providers, lastOp.providerType)[k].uid = lastOp.result.uid
  /\ Cardinality({k \in 1..Len(split(envFile)) :
         startsWithKey(split(envFile)[k],
                       getEnvVariablePatterns(lastOp.result.instanceIndex).appKey)}) > 1

-----------------------------------------------------------------------------
(* Properties of the authorize request *)

\* C37: an authorize request that is not answered with the redirect leaves
\* the provider map unchanged, and an authorize request creates no instance
\* at an index other than the one it names
C37_AuthorizeCreatesOnlyTheNamedIndex ==
  [][(lastOp'.kind = "authorize")
     => /\ lastOp'.result.status # 302 => providers' = providers
        /\ \A k \in 1..Len(listOf(providers', lastOp'.providerType)) :
             (k > Len(listOf(providers, lastOp'.providerType))) => k - 1 = lastOp'.index
    ]_vars

\* an authorize request for an index beyond the end of the list was answered
\* with an error, and an instance was created at the end of the list
C37_Witness ==
  /\ lastOp.kind = "authorize"
  /\ lastOp.result.status = 500
  /\ Len(listOf(providers, lastOp.providerType)) > 0
  /\ Len(listOf(providers, lastOp.providerType)) - 1 < lastOp.index

-----------------------------------------------------------------------------
(* Properties of listing an instance again *)

\* C38: in every reachable state the index holds at most one record for a
\* provider type, instance index and file id: listing an instance again, by
\* another initialize() or by addProvider on an index that holds an instance,
\* adds no second record
C38_OneRecordPerFile ==
  \A k, m \in 1..Len(dateSortedThumbnails) :
    (/\ dateSortedThumbnails[k].id = dateSortedThumbnails[m].id
     /\ dateSortedThumbnails[k].providerType = dateSortedThumbnails[m].providerType
     /\ dateSortedThumbnails[k].instanceIndex = dateSortedThumbnails[m].instanceIndex)
      => k = m

\* addProvider(type, i) was run on an index that held an instance and listed
\* it again: the index holds one file of (type, i) twice, once from each of
\* the two provider objects
C38_Witness ==
  /\ lastOp.kind = "initializeResumed"
  /\ \E k, m \in 1..Len(dateSortedThumbnails) :
       /\ k < m
       /\ dateSortedThumbnails[k].id = dateSortedThumbnails[m].id
       /\ dateSortedThumbnails[k].providerType = lastOp.providerType
       /\ dateSortedThumbnails[m].providerType = lastOp.providerType
       /\ dateSortedThumbnails[k].instanceIndex = lastOp.index
       /\ dateSortedThumbnails[m].instanceIndex = lastOp.index
       /\ dateSortedThumbnails[k].origin # dateSortedThumbnails[m].origin

-----------------------------------------------------------------------------
(* Properties of reading a page *)

\* C39: getThumbnailObjects changes neither the merged index nor the render
\* pointer: the index holds the same records in the same order after a call
C39_PageReadLeavesIndexUnchanged ==
  [][(lastOp'.kind = "getThumbnailObjects")
     => /\ dateSortedThumbnails' = dateSortedThumbnails
        /\ renderPointer' = renderPointer
    ]_vars

\* a call has returned a page of two different records, newest first, and the
\* index still holds them oldest first
C39_Witness ==
  /\ lastOp.kind = "getThumbnailObjects"
  /\ Len(page) > 0
  /\ \E result \in {page[Len(page)].result} :
       /\ Len(result) = 2
       /\ result[1] # result[2]
       /\ \E k \in 1..(Len(dateSortedThumbnails) - 1) :
            /\ dateSortedThumbnails[k] = result[2]
            /\ dateSortedThumbnails[k + 1] = result[1]

-----------------------------------------------------------------------------
(* Properties of getValue and hasKey *)

\* C40: getValue(key) is the text after the first '=' of the first line that
\* starts with key and '=', and null when there is no such line; a line whose
\* key only begins with the text of key (suffix 10 for suffix 1) is never
\* read; hasKey(key) is true exactly when getValue(key) is not null
C40_GetValueReadsFirstExactLine ==
  (lastOp.kind = "getValue")
    => \A key \in {lastOp.files[1]} :
       \A lines \in {storedLines(envFile)} :
       \A matching \in {{k \in 1..Len(lines) : lines[k][1] = key /\ lines[k][2] = EQ}} :
         /\ lastOp.result.hasKey <=> (lastOp.result.value # null)
         /\ IF matching = {}
            THEN lastOp.result.value = null
            ELSE \E k \in matching :
                   /\ \A m \in matching : k <= m
                   /\ lastOp.result.value = SubSeq(lines[k], 3, Len(lines[k]))

\* the key of suffix 1 was read from a store whose first line holds the key
\* of suffix 10: the value is that of the later line for suffix 1
C40_Witness ==
  /\ lastOp.kind = "getValue"
  /\ lastOp.files[1] = KeyTok("DROPBOX", "APP_KEY", 1)
  /\ Len(storedLines(envFile)) >= 2
  /\ storedLines(envFile)[1][1] = KeyTok("DROPBOX", "APP_KEY", 10)
  /\ storedLines(envFile)[2][1] = KeyTok("DROPBOX", "APP_KEY", 1)
  /\ lastOp.result.value = SubSeq(storedLines(envFile)[2], 3, Len(storedLines(envFile)[2]))
  /\ lastOp.result.hasKey

====
